---------------------------- MODULE Spec2Model ----------------------------
(***************************************************************************)
(* Model of the match enrichment pipeline of step2.7.py / step1_json.py:   *)
(* the History Store (save_match_summaries), the Payload Accessor          *)
(* (first_result), the Entity Resolver/Merger (merge_and_summarize and the *)
(* extract_* helpers), the Competition Grouper                             *)
(* (sort_matches_by_competition_and_time) and the Odds Time-Window         *)
(* Selector (filter_odds_by_time), the status classifiers and summary, and *)
(* the retrying fetcher (fetch_json).                                      *)
(*                                                                         *)
(* Python values are tagged records: the field k is the Python type, the   *)
(* field v the payload.  A dict's payload is a function from its keys      *)
(* (strings) to values, a list's payload a sequence.  An operation that    *)
(* raises in Python evaluates to Raise.                                    *)
(***************************************************************************)
EXTENDS Integers, Sequences, FiniteSets, TLC

VARIABLES
    file,          \* the History Store's backing file: [exists, content]
    file0,         \* the backing file before the first save
    nOk,           \* number of saves that returned True
    clock,         \* wall clock, read by datetime.now() in each save
    ret,           \* return value of the last sequential save ("none" before)
    prev,          \* the backing file as it was before the last save
    lastBatch,     \* the batch the last save built
    lastIo,        \* how opening and writing the file went in the last save
    lastSummaries, \* the summaries list given to the last sequential save
    placed,        \* everything ever placed in the history list, in order
    wpc,           \* concurrent writers: position of each writer in its save
    wdata,         \* concurrent writers: the document each writer loaded
    wbatch,        \* concurrent writers: the batch each writer built
    wret,          \* concurrent writers: return value of each writer's save
    wcalls,        \* concurrent writers: number of saves each writer has begun
    live,          \* merge: the live-feed stub
    payload,       \* merge: the side-table bundle
    summary,       \* merge: result of merge_and_summarize (NotRun before)
    matches,       \* grouper: input, a sequence of <<match_id, match_data>>
    groups,        \* grouper: result of sort_matches_by_competition_and_time
    odds_entries,  \* odds selector: input sequence
    acc_mapping,   \* accessor: the side table given to first_result
    acc_key,       \* accessor: the key given to first_result
    acc_result,    \* accessor: result of first_result (NotRun before)
    market_match,  \* odds extraction: the match given to extract_odds
    market_odds,   \* odds extraction: result of extract_odds (NotRun before)
    env_raw,       \* environment: the raw environment reading
    env_parsed,    \* environment: results of both interpreters (NotRun before)
    cls_match,     \* status classifier: the match-like object classified
    cls_result,    \* status classifier: extracted status and labels (NotRun before)
    feed,          \* status summary: the live-feed payload
    feed_summary,  \* status summary: the summaries and counts (NotRun before)
    inf_match,     \* country inference: the match record
    inferred,      \* country inference: result (NotRun before)
    rerun_given,   \* re-run: the stub and the bundle as first given
    rerun_results, \* re-run: the summaries of the applications so far
    rerun_clock,   \* re-run: seconds on the wall clock since the first application
    fj_pc,         \* fetch_json: position of the call
    fj_attempt,    \* fetch_json: the loop variable attempt
    fj_log,        \* fetch_json: the requests made and the waits slept, in order
    fj_ret,        \* fetch_json: the value returned (NotRun before)
    selected       \* odds selector: results of the two selectors (NotRun before)

histVars   == <<file, file0, nOk, clock, ret, prev, lastBatch, lastIo, lastSummaries, placed>>
writerVars == <<wpc, wdata, wbatch, wret, wcalls>>
mergeVars  == <<live, payload, summary>>
groupVars  == <<matches, groups>>
oddsVars   == <<odds_entries, selected>>
accVars    == <<acc_mapping, acc_key, acc_result>>
marketVars == <<market_match, market_odds>>
envVars    == <<env_raw, env_parsed>>
clsVars    == <<cls_match, cls_result>>
feedVars   == <<feed, feed_summary>>
inferVars  == <<inf_match, inferred>>
rerunVars  == <<rerun_given, rerun_results, rerun_clock>>
fetchVars  == <<fj_pc, fj_attempt, fj_log, fj_ret>>
vars == <<file, file0, nOk, clock, ret, prev, lastBatch, lastIo, lastSummaries, placed, wpc, wdata, wbatch, wret, wcalls,
          live, payload, summary, matches, groups, odds_entries, selected,
          acc_mapping, acc_key, acc_result, market_match, market_odds, env_raw, env_parsed,
          cls_match, cls_result, feed, feed_summary, inf_match, inferred,
          rerun_given, rerun_results, rerun_clock, fj_pc, fj_attempt, fj_log, fj_ret>>

----------------------------------------------------------------------------
(* Bounds of the model *)

\* number of sequential saves explored
MaxSaves == 102
\* saves whose summaries and I/O outcome vary
MaxVaried == 1
\* saves each concurrent writer makes
MaxWriterCalls == 2
\* length of the odds series given to the selector
MaxEntries == 4
\* number of matches given to the grouper
MaxMatches == 3
\* number of snapshots in an over/under series
MaxLines == 3
\* largest whole number of mph in a wind reading
MaxWind == 80
\* largest status code a stub carries, besides 99
MaxStatus == 14
\* number of stubs in a live feed
MaxStubs == 3

----------------------------------------------------------------------------
(* Python values *)

None     == [k |-> "none"]
NotRun   == [k |-> "notrun"]
Raise    == [k |-> "raise"]
PyTrue   == [k |-> "bool", v |-> TRUE]
PyFalse  == [k |-> "bool", v |-> FALSE]
I(n)     == [k |-> "int", v |-> n]
S(s)     == [k |-> "str", v |-> s]
L(q)     == [k |-> "list", v |-> q]
D(f)     == [k |-> "dict", v |-> f]
NoKeys   == [key \in {} |-> None]
EmptyDict == D(NoKeys)
EmptyList == L(<< >>)

IsDict(x) == x.k = "dict"
IsList(x) == x.k = "list"
IsStr(x)  == x.k = "str"
IsInt(x)  == x.k = "int"
IsRaise(x) == x.k = "raise"

\* bool(x)
Truthy(x) ==
    CASE x.k = "none" -> FALSE
      [] x.k = "bool" -> x.v
      [] x.k = "int"  -> x.v # 0
      [] x.k = "float" -> x.v # 0
      [] x.k = "str"  -> x.v # ""
      [] x.k = "list" -> Len(x.v) > 0
      [] x.k = "dict" -> DOMAIN x.v # {}
      [] OTHER -> TRUE

\* a or b
Or(a, b) == IF Truthy(a) THEN a ELSE b

\* d.get(key, default) of a dict d
Get(d, key, default) == IF key \in DOMAIN d.v THEN d.v[key] ELSE default

\* x.get(key, default) of any value: only a dict has .get
GetAttr(x, key, default) ==
    IF IsRaise(x) THEN Raise
    ELSE IF IsDict(x) THEN Get(x, key, default) ELSE Raise

\* str(x)
\* str() of a float given in thousandths: "4.0", "3.9", "-0.25"
FloatStr(t) ==
    LET mag  == IF t < 0 THEN 0 - t ELSE t
        frac == mag % 1000
        dec  == IF frac % 100 = 0 THEN ToString(frac \div 100)
                ELSE IF frac % 10 = 0
                     THEN ToString(frac \div 100) \o ToString((frac \div 10) % 10)
                     ELSE ToString(frac \div 100) \o ToString((frac \div 10) % 10)
                             \o ToString(frac % 10)
    IN  (IF t < 0 THEN "-" ELSE "") \o ToString(mag \div 1000) \o "." \o dec

PyStr(x) ==
    CASE x.k = "str"  -> x.v
      [] x.k = "int"  -> ToString(x.v)
      [] x.k = "float" -> FloatStr(x.v)
      [] x.k = "none" -> "None"
      [] x.k = "bool" -> (IF x.v THEN "True" ELSE "False")
      [] OTHER -> "<object>"

\* len(x): defined for strings, lists and dicts only
PyLen(x) ==
    CASE x.k = "str"  -> I(Len(x.v))
      [] x.k = "list" -> I(Len(x.v))
      [] x.k = "dict" -> I(Cardinality(DOMAIN x.v))
      [] OTHER -> Raise

\* the last n elements of a sequence: q[-n:]
LastN(q, n) == IF Len(q) <= n THEN q ELSE SubSeq(q, Len(q) - n + 1, Len(q))

\* the elements a for loop over x visits: a list's elements, a string's
\* characters, a dict's keys; anything else is not iterable
RECURSIVE KeySeq(_)
KeySeq(keys) ==
    IF keys = {} THEN << >>
    ELSE LET key == CHOOSE x \in keys : TRUE
         IN  <<S(key)>> \o KeySeq(keys \ {key})

Iter(x) ==
    CASE x.k = "list" -> x.v
      [] x.k = "str"  -> [i \in 1..Len(x.v) |-> S(SubSeq(x.v, i, i))]
      [] x.k = "dict" -> KeySeq(DOMAIN x.v)
      [] OTHER -> Raise

IsIterable(x) == x.k \in {"list", "str", "dict"}

Digits == {"0", "1", "2", "3", "4", "5", "6", "7", "8", "9"}

DigitValue(c) ==
    CASE c = "0" -> 0 [] c = "1" -> 1 [] c = "2" -> 2 [] c = "3" -> 3 [] c = "4" -> 4
      [] c = "5" -> 5 [] c = "6" -> 6 [] c = "7" -> 7 [] c = "8" -> 8 [] c = "9" -> 9

\* length of the longest prefix of s whose characters are all in chars
PrefixLen(s, chars) ==
    LET ok(n) == \A i \in 1..n : SubSeq(s, i, i) \in chars
    IN  CHOOSE n \in 0..Len(s) : ok(n) /\ (n = Len(s) \/ SubSeq(s, n + 1, n + 1) \notin chars)

\* int(s) of a string of digits
RECURSIVE ParseInt(_)
ParseInt(s) ==
    IF Len(s) = 0 THEN 0
    ELSE 10 * ParseInt(SubSeq(s, 1, Len(s) - 1)) + DigitValue(SubSeq(s, Len(s), Len(s)))

----------------------------------------------------------------------------
(* Odds Time-Window Selector: filter_odds_by_time and the filter_by_time   *)
(* nested in extract_odds                                                  *)

\* _safe_minute: the leading integer of str(v), None when there is none
safe_minute(v) ==
    IF v = None THEN None
    ELSE LET s == PyStr(v)
             n == PrefixLen(s, Digits)
         IN  IF n = 0 THEN None ELSE I(ParseInt(SubSeq(s, 1, n)))

\* the entries that are lists of at least two elements
ListEntries(entries) ==
    SelectSeq(entries, LAMBDA ent : IsList(ent) /\ Len(ent.v) > 1)

\* pts: the list entries whose minute marker parses
Pts(entries) ==
    SelectSeq(ListEntries(entries), LAMBDA ent : safe_minute(ent.v[2]) # None)

Minute(ent) == safe_minute(ent.v[2]).v

\* a selector whose window misses its lower end
InWindow_OpenBelow(pts) ==
    SelectSeq(pts, LAMBDA ent : 3 < Minute(ent) /\ Minute(ent) <= 6)

\* in_window: 3 <= m <= 6
InWindow(pts) == SelectSeq(pts, LAMBDA ent : 3 <= Minute(ent) /\ Minute(ent) <= 6)

\* under_ten: m < 10
UnderTen(pts) == SelectSeq(pts, LAMBDA ent : Minute(ent) < 10)

\* abs(m - 4.5), doubled to stay in the integers
Distance(ent) ==
    IF 2 * Minute(ent) >= 9 THEN 2 * Minute(ent) - 9 ELSE 9 - 2 * Minute(ent)

\* a minimum that takes the last element with the least key
MinByDistance_LastWins(q) ==
    q[CHOOSE i \in 1..Len(q) :
        /\ \A j \in 1..Len(q) : Distance(q[i]) <= Distance(q[j])
        /\ \A j \in (i + 1)..Len(q) : Distance(q[j]) > Distance(q[i])]

\* min(under_ten, key=...): the first element with the least key
MinByDistance(q) ==
    q[CHOOSE i \in 1..Len(q) :
        /\ \A j \in 1..Len(q) : Distance(q[i]) <= Distance(q[j])
        /\ \A j \in 1..(i - 1) : Distance(q[j]) > Distance(q[i])]

\* lines 604-619
filter_odds_by_time(odds_entries_arg) ==
    IF ~IsIterable(odds_entries_arg) THEN Raise
    ELSE LET pts == Pts(Iter(odds_entries_arg))
             in_window == InWindow(pts)
             under_ten == UnderTen(pts)
         IN  IF Len(in_window) > 0 THEN L(in_window)
             ELSE IF Len(under_ten) > 0 THEN L(<<MinByDistance(under_ten)>>)
             ELSE EmptyList

\* lines 113-120, nested in extract_odds
filter_by_time(entries) ==
    IF ~IsIterable(entries) THEN Raise
    ELSE LET pts == Pts(Iter(entries))
             in_window == InWindow(pts)
             under_ten == UnderTen(pts)
         IN  IF Len(in_window) > 0 THEN L(in_window)
             ELSE IF Len(under_ten) = 0 THEN EmptyList
             ELSE L(<<MinByDistance(under_ten)>>)

----------------------------------------------------------------------------
(* Match Summarizer: extract_odds, extract_environment, extract_events and *)
(* extract_summary_fields                                                  *)

F(thousandths) == [k |-> "float", v |-> thousandths]

UpperCase == "ABCDEFGHIJKLMNOPQRSTUVWXYZ"
LowerCase == "abcdefghijklmnopqrstuvwxyz"

\* c.lower() of one character
LowerChar(c) ==
    IF \E i \in 1..Len(UpperCase) : SubSeq(UpperCase, i, i) = c
    THEN LET i == CHOOSE j \in 1..Len(UpperCase) : SubSeq(UpperCase, j, j) = c
         IN  SubSeq(LowerCase, i, i)
    ELSE c

\* s.lower()
RECURSIVE Lower(_)
Lower(s) ==
    IF Len(s) = 0 THEN ""
    ELSE Lower(SubSeq(s, 1, Len(s) - 1)) \o LowerChar(SubSeq(s, Len(s), Len(s)))

\* t in s, for strings
Contains(s, t) ==
    \E i \in 1..(Len(s) - Len(t) + 1) : SubSeq(s, i, i + Len(t) - 1) = t

\* s.strip() of blanks
RECURSIVE Strip(_)
Strip(s) ==
    IF Len(s) = 0 THEN s
    ELSE IF SubSeq(s, 1, 1) = " " THEN Strip(SubSeq(s, 2, Len(s)))
    ELSE IF SubSeq(s, Len(s), Len(s)) = " " THEN Strip(SubSeq(s, 1, Len(s) - 1))
    ELSE s

\* the positions of character c in s
Positions(s, c) == { i \in 1..Len(s) : SubSeq(s, i, i) = c }

\* float(t) in thousandths, for t made of digits, "." and "-"; Raise when
\* t is no number ("-", ".", "1.2.3", "3-1")
ParseFloat(t) ==
    LET neg  == Len(t) > 0 /\ SubSeq(t, 1, 1) = "-"
        body == IF neg THEN SubSeq(t, 2, Len(t)) ELSE t
        dots == Positions(body, ".")
    IN  IF \/ Positions(body, "-") # {}
           \/ Cardinality(dots) > 1
           \/ Len(body) - Cardinality(dots) = 0
        THEN Raise
        ELSE LET dot  == IF dots = {} THEN Len(body) + 1 ELSE CHOOSE i \in dots : TRUE
                 whole == SubSeq(body, 1, dot - 1)
                 frac  == SubSeq(SubSeq(body, dot + 1, Len(body)) \o "000", 1, 3)
                 mag   == 1000 * ParseInt(whole) + ParseInt(frac)
             IN  F(IF neg THEN 0 - mag ELSE mag)

\* re.match(r"([\d.-]+)\s*([^\d]*)", str(val)): the number and the unit
NumberAndUnit(val) ==
    LET s  == PyStr(val)
        n  == PrefixLen(s, Digits \cup {".", "-"})
        r1 == SubSeq(s, n + 1, Len(s))
        r2 == SubSeq(r1, PrefixLen(r1, {" "}) + 1, Len(r1))
        u  == SubSeq(r2, 1, CHOOSE m \in 0..Len(r2) :
                              /\ \A i \in 1..m : SubSeq(r2, i, i) \notin Digits
                              /\ (m = Len(r2) \/ SubSeq(r2, m + 1, m + 1) \in Digits))
    IN  IF n = 0 THEN [num |-> None, unit |-> None]
        ELSE [num |-> ParseFloat(SubSeq(s, 1, n)), unit |-> S(Strip(u))]

\* lines 157-162: the weather code as looked up, and its description
WeatherCode(wc) ==
    IF IsStr(wc) /\ Len(wc.v) > 0 /\ PrefixLen(wc.v, Digits) = Len(wc.v)
    THEN I(ParseInt(wc.v)) ELSE wc

WeatherNames ==
    <<"Sunny", "Partly Cloudy", "Cloudy", "Overcast", "Foggy", "Light Rain",
      "Rain", "Heavy Rain", "Snow", "Thunder">>

WeatherDescription(code) ==
    CASE code.k \in {"list", "dict"} -> Raise
      [] code.k = "int" /\ code.v \in 1..Len(WeatherNames) -> S(WeatherNames[code.v])
      [] code.k = "float" /\ code.v \in {1000 * i : i \in 1..Len(WeatherNames)}
            -> S(WeatherNames[code.v \div 1000])
      [] code = PyTrue -> S(WeatherNames[1])
      [] OTHER -> S("Unknown")

\* lines 174-178: the wind table, limits in mph
WindTable ==
    << <<1, "Calm">>, <<4, "Light Air">>, <<8, "Light Breeze">>,
       <<13, "Gentle Breeze">>, <<19, "Moderate Breeze">>, <<25, "Fresh Breeze">>,
       <<32, "Strong Breeze">>, <<39, "Near Gale">>, <<47, "Gale">>,
       <<55, "Strong Gale">>, <<64, "Storm">>, <<73, "Violent Storm">> >>

\* line 179 with `<=` in place of `<`
WindDescription_Inclusive(mphMicro) ==
    LET below == { i \in 1..Len(WindTable) : mphMicro <= WindTable[i][1] * 1000000 }
    IN  IF below = {} THEN "Hurricane"
        ELSE WindTable[CHOOSE i \in below : \A j \in below : i <= j][2]

\* line 179: the label of the first limit above mph (given in millionths)
WindDescription(mphMicro) ==
    LET below == { i \in 1..Len(WindTable) : mphMicro < WindTable[i][1] * 1000000 }
    IN  IF below = {} THEN "Hurricane"
        ELSE WindTable[CHOOSE i \in below : \A j \in below : i <= j][2]

EnvKeys == {"temperature", "wind", "pressure", "humidity"}

\* lines 152-180
extract_environment(match) ==
    LET env == Or(Get(match, "environment", EmptyDict), EmptyDict)
    IN  IF ~IsDict(env) THEN Raise
        ELSE
        LET weather == WeatherCode(Get(env, "weather", None))
            wdesc   == WeatherDescription(weather)
            nu      == [key \in EnvKeys |-> NumberAndUnit(Get(env, key, None))]
            wv      == Or(nu["wind"].num, I(0))
            ms      == Contains(Lower(PyStr(Get(env, "wind", S("")))), "m/s")
            mph     == IF wv.k = "float"
                       THEN (IF ms THEN wv.v * 2237 ELSE wv.v * 1000)
                       ELSE 0
        IN  IF IsRaise(wdesc) \/ \E key \in EnvKeys : IsRaise(nu[key].num) THEN Raise
            ELSE D([raw |-> env,
                    weather |-> weather,
                    weather_description |-> wdesc,
                    temperature |-> Get(env, "temperature", None),
                    temperature_value |-> nu["temperature"].num,
                    temperature_unit |-> nu["temperature"].unit,
                    wind |-> Get(env, "wind", None),
                    wind_value |-> nu["wind"].num,
                    wind_unit |-> nu["wind"].unit,
                    pressure |-> Get(env, "pressure", None),
                    pressure_value |-> nu["pressure"].num,
                    pressure_unit |-> nu["pressure"].unit,
                    humidity |-> Get(env, "humidity", None),
                    humidity_value |-> nu["humidity"].num,
                    humidity_unit |-> nu["humidity"].unit,
                    wind_description |-> S(WindDescription(mph))])

\* s.replace(c, ""), for a one-character c
RECURSIVE Without(_, _)
Without(s, c) ==
    IF Len(s) = 0 THEN ""
    ELSE (IF SubSeq(s, 1, 1) = c THEN "" ELSE SubSeq(s, 1, 1))
            \o Without(SubSeq(s, 2, Len(s)), c)

\* s.isdigit()
IsDigit(s) == Len(s) > 0 /\ PrefixLen(s, Digits) = Len(s)

\* line 549: int(temp), Raise when the text is no integer ("5-", "1-2")
IntOf(temp) ==
    IF temp.k = "int" THEN temp
    ELSE LET t   == PyStr(temp)
             neg == Len(t) > 0 /\ SubSeq(t, 1, 1) = "-"
             body == IF neg THEN SubSeq(t, 2, Len(t)) ELSE t
         IN  IF ~IsDigit(body) THEN Raise
             ELSE I(IF neg THEN 0 - ParseInt(body) ELSE ParseInt(body))

\* lines 548-553: the temperature text; round(c * 9/5 + 32) never meets a
\* half, so it is the nearest integer
Temperature(temp) ==
    IF Truthy(temp) /\ IsDigit(Without(PyStr(temp), "-"))
    THEN LET c == IntOf(temp)
         IN  IF IsRaise(c) THEN Raise
             ELSE S(ToString(c.v) \o "Â°C (" \o ToString(((9 * c.v + 2) \div 5) + 32)
                       \o "Â°F)")
    ELSE IF Truthy(temp) THEN S(PyStr(temp)) ELSE S("Unknown")

\* lines 557-582: the if-chain over wind_mph (given in thousandths)
WindChain(wind_mph) ==
    IF wind_mph < 1000 THEN "Calm"
    ELSE IF wind_mph < 4000 THEN "Light Air"
    ELSE IF wind_mph < 8000 THEN "Light Breeze"
    ELSE IF wind_mph < 13000 THEN "Gentle Breeze"
    ELSE IF wind_mph < 19000 THEN "Moderate Breeze"
    ELSE IF wind_mph < 25000 THEN "Fresh Breeze"
    ELSE IF wind_mph < 32000 THEN "Strong Breeze"
    ELSE IF wind_mph < 39000 THEN "Near Gale"
    ELSE IF wind_mph < 47000 THEN "Gale"
    ELSE IF wind_mph < 55000 THEN "Strong Gale"
    ELSE IF wind_mph < 64000 THEN "Storm"
    ELSE IF wind_mph < 73000 THEN "Violent Storm"
    ELSE "Hurricane"

\* line 555: wind and str(wind).replace(".", "").isdigit()
PlainWind(wind) == Truthy(wind) /\ IsDigit(Without(PyStr(wind), "."))

\* lines 540-588
process_environment_like_step2(env) ==
    IF ~IsDict(env) THEN Raise
    ELSE
    LET weather  == WeatherCode(Get(env, "weather", None))
        known    == WeatherDescription(weather)
        wdesc    == IF known = S("Unknown")
                    THEN S("Unknown (" \o PyStr(weather) \o ")") ELSE known
        temp     == Temperature(Get(env, "temperature", None))
        wind     == Get(env, "wind", None)
        wind_mph == IF wind.k = "int" THEN F(1000 * wind.v) ELSE ParseFloat(PyStr(wind))
        chain    == WindChain(wind_mph.v)
        common   == [raw |-> env,
                     weather |-> weather,
                     weather_description |-> wdesc,
                     temperature |-> temp,
                     wind |-> IF PlainWind(wind)
                              THEN S(PyStr(wind_mph) \o " mph (" \o chain \o ")")
                              ELSE IF Truthy(wind) THEN S(PyStr(wind)) ELSE S("Unknown"),
                     pressure |-> S(PyStr(Get(env, "pressure", S("Unknown"))) \o " hPa"),
                     humidity |-> S(PyStr(Get(env, "humidity", S("Unknown"))) \o "%")]
    IN  IF IsRaise(known) \/ IsRaise(temp) \/ (PlainWind(wind) /\ IsRaise(wind_mph))
        THEN Raise
        ELSE IF PlainWind(wind)
             THEN D([wind_description |-> S(chain)] @@ common)
             ELSE D(common)

\* line 188: the event types kept
EventTypes == {S("goal"), S("yellowcard"), S("redcard"), S("penalty"), S("substitution")}

\* lines 183-189
extract_events(match) ==
    LET events == Get(match, "events", EmptyList)
    IN  IF ~IsIterable(events) THEN Raise
        ELSE LET evs == Iter(events)
             IN  IF \E i \in 1..Len(evs) :
                       \/ ~IsDict(evs[i])
                       \/ Get(evs[i], "type", None).k \in {"list", "dict"}
                 THEN Raise
                 ELSE LET kept == SelectSeq(evs, LAMBDA ev : Get(ev, "type", None) \in EventTypes)
                      IN  L([i \in 1..Len(kept) |->
                               D([type   |-> Get(kept[i], "type", None),
                                  time   |-> Get(kept[i], "time", None),
                                  team   |-> Get(kept[i], "team", None),
                                  player |-> Get(kept[i], "player", None),
                                  detail |-> Get(kept[i], "detail", None)])])

\* line 123: (filter_by_time(raw_odds.get(key, [])) or [None])[0]
MarketEntry(raw_odds, key) ==
    LET f == filter_by_time(Get(raw_odds, key, EmptyList))
    IN  IF IsRaise(f) THEN Raise ELSE Or(f, L(<<None>>)).v[1]

\* line 124: entry and len(entry) >= max(idxs) + 1
Usable(entry) == Truthy(entry) /\ Len(entry.v) >= 5

\* lines 143-148: the Both Teams to Score selections, or Raise
MarketSelections(m) ==
    IF ~IsDict(m) THEN Raise
    ELSE IF Get(m, "name", None) # S("Both Teams to Score") THEN << >>
    ELSE LET sels == Get(m, "selections", EmptyList)
         IN  IF ~IsIterable(sels) THEN Raise
             ELSE IF \E i \in 1..Len(Iter(sels)) :
                        \/ ~IsDict(Iter(sels)[i])
                        \/ ~IsStr(Get(Iter(sels)[i], "name", S("")))
                  THEN Raise
                  ELSE Iter(sels)

RECURSIVE Flatten(_)
Flatten(qs) == IF Len(qs) = 0 THEN << >> ELSE Head(qs) \o Flatten(Tail(qs))

BothTeamsToScore(match) ==
    LET betting == Get(match, "betting", EmptyDict)
        markets == GetAttr(betting, "markets", EmptyList)
    IN  IF IsRaise(markets) \/ ~IsIterable(markets) THEN Raise
        ELSE LET per == [i \in 1..Len(Iter(markets)) |-> MarketSelections(Iter(markets)[i])]
             IN  IF \E i \in 1..Len(per) : per[i] = Raise THEN Raise
                 ELSE LET sels == Flatten(per)
                          named(nm) == { i \in 1..Len(sels) : Lower(Get(sels[i], "name", S("")).v) = nm }
                      IN  D([nm \in { n \in {"yes", "no"} : named(n) # {} } |->
                               Get(sels[CHOOSE i \in named(nm) : \A j \in named(nm) : j <= i],
                                   "odds", None)])

\* lines 99-105 and 124-149: the result dict, given the entry selected for
\* each market and the Both Teams to Score prices
OddsFields(raw_odds, eu, asia, bs, btts) ==
    LET line == D([line |-> bs.v[4], over |-> bs.v[3], under |-> bs.v[5],
                   timestamp |-> bs.v[1], match_time |-> bs.v[2]])
    IN  IF IsRaise(eu) \/ IsRaise(asia) \/ IsRaise(bs) \/ IsRaise(btts) THEN Raise
        ELSE D([key \in {"full_time_result", "both_teams_to_score", "over_under",
                         "spread", "raw"}
                        \cup (IF Usable(bs) THEN {"primary_over_under"} ELSE {}) |->
                  CASE key = "full_time_result" ->
                         IF Usable(eu)
                         THEN D([home |-> eu.v[3], draw |-> eu.v[4], away |-> eu.v[5],
                                 timestamp |-> eu.v[1], match_time |-> eu.v[2]])
                         ELSE EmptyDict
                    [] key = "spread" ->
                         IF Usable(asia)
                         THEN D([handicap |-> asia.v[4], home |-> asia.v[3],
                                 away |-> asia.v[5], timestamp |-> asia.v[1],
                                 match_time |-> asia.v[2]])
                         ELSE EmptyDict
                    [] key = "over_under" ->
                         IF Usable(bs)
                         THEN D([k2 \in {PyStr(bs.v[4])} |-> line])
                         ELSE EmptyDict
                    [] key = "primary_over_under" -> line
                    [] key = "both_teams_to_score" -> btts
                    [] key = "raw" -> raw_odds])

\* lines 97-149
extract_odds(match) ==
    LET raw_odds == Or(Get(match, "odds", EmptyDict), EmptyDict)
    IN  IF ~IsDict(raw_odds) THEN Raise
        ELSE OddsFields(raw_odds, MarketEntry(raw_odds, "eu"), MarketEntry(raw_odds, "asia"),
                        MarketEntry(raw_odds, "bs"), BothTeamsToScore(match))

\* x == 0 in Python
EqZero(x) == x = I(0) \/ x = PyFalse \/ x = F(0)

\* lines 39-46: [live, halftime] of one side from the score array
SideScore(sd, idx) ==
    IF IsList(sd) /\ Len(sd.v) > 3 /\ IsList(sd.v[idx]) /\ Len(sd.v[idx].v) > 1
    THEN <<sd.v[idx].v[1], sd.v[idx].v[2]>>
    ELSE <<I(0), I(0)>>

\* lines 50-53: the flat scores list replaces a live score of 0
LiveScore(live_score, scores) ==
    IF Truthy(scores) /\ EqZero(live_score)
    THEN (IF IsList(scores) THEN scores.v[1] ELSE I(0))
    ELSE live_score

\* lines 38-94: the summary, given the extracted odds, environment and events
SummaryFields(match, odds, environment, events) ==
    LET sd == Get(match, "score", EmptyList)
        home_scores == Get(match, "home_scores", EmptyList)
        away_scores == Get(match, "away_scores", EmptyList)
        hs == SideScore(sd, 3)
        as == SideScore(sd, 4)
        side(name, live_score, ht, detailed, position, country, logo) ==
            D([name |-> name,
               score |-> D([current |-> live_score, halftime |-> ht, detailed |-> detailed]),
               position |-> position, country |-> country, logo_url |-> logo])
    IN  IF IsRaise(odds) \/ IsRaise(environment) \/ IsRaise(events) THEN Raise
        ELSE D([match_id |-> Or(Get(match, "match_id", None), Get(match, "id", None)),
                status |-> D([id |-> Get(match, "status_id", None),
                              description |-> Get(match, "status", S("")),
                              match_time |-> Get(match, "match_time", I(0))]),
                teams |-> D([home |-> side(Get(match, "home_team", S("Unknown")),
                                           LiveScore(hs[1], home_scores), hs[2], home_scores,
                                           Get(match, "home_position", None),
                                           Get(match, "home_country", None),
                                           Get(match, "home_logo", None)),
                             away |-> side(Get(match, "away_team", S("Unknown")),
                                           LiveScore(as[1], away_scores), as[2], away_scores,
                                           Get(match, "away_position", None),
                                           Get(match, "away_country", None),
                                           Get(match, "away_logo", None))]),
                competition |-> D([name |-> Get(match, "competition", S("Unknown")),
                                   id |-> Get(match, "competition_id", None),
                                   country |-> Get(match, "country", None),
                                   logo_url |-> Get(match, "competition_logo", None)]),
                round |-> Get(match, "round", EmptyDict),
                venue |-> Get(match, "venue_id", None),
                referee |-> Get(match, "referee_id", None),
                neutral |-> (IF Get(match, "neutral", None) \in {I(1), PyTrue, F(1000)}
                             THEN PyTrue ELSE PyFalse),
                coverage |-> Get(match, "coverage", EmptyDict),
                start_time |-> Get(match, "scheduled", None),
                odds |-> odds,
                environment |-> environment,
                events |-> events])

\* lines 37-94
extract_summary_fields(match) ==
    SummaryFields(match, extract_odds(match), extract_environment(match),
                  extract_events(match))

----------------------------------------------------------------------------
(* Payload Accessor and Entity Resolver/Merger: first_result and           *)
(* merge_and_summarize                                                     *)

\* an accessor that reads "results" only
first_result_ResultsOnly(mapping, key) ==
    LET wrap == IF key = None THEN None ELSE GetAttr(mapping, PyStr(key), None)
    IN  IF IsRaise(key) \/ IsRaise(wrap) THEN Raise
        ELSE IF IsDict(wrap)
        THEN LET res == Or(Get(wrap, "results", None), EmptyList)
             IN  IF IsList(res) /\ Truthy(res) THEN res.v[1] ELSE EmptyDict
        ELSE EmptyDict

\* lines 227-232
first_result(mapping, key) ==
    LET wrap == IF key = None THEN None ELSE GetAttr(mapping, PyStr(key), None)
    IN  IF IsRaise(key) \/ IsRaise(wrap) THEN Raise
        ELSE IF IsDict(wrap)
        THEN LET res == Or(Or(Get(wrap, "results", None), Get(wrap, "result", None)),
                           EmptyList)
             IN  IF IsList(res) /\ Truthy(res) THEN res.v[1] ELSE EmptyDict
        ELSE EmptyDict

\* lines 243-245: the id -> name pairs of the country list, in list order;
\* a list or dict as id cannot be a key
Countries(cw) ==
    LET cl == Or(Or(GetAttr(cw, "results", None), GetAttr(cw, "result", None)), EmptyList)
    IN  IF IsRaise(cl) \/ ~IsIterable(cl) THEN Raise
        ELSE LET cs == SelectSeq(Iter(cl), IsDict)
             IN  IF \E i \in 1..Len(cs) : Get(cs[i], "id", None).k \in {"list", "dict"}
                 THEN Raise
                 ELSE [k |-> "pairs",
                       v |-> [i \in 1..Len(cs) |->
                                <<Get(cs[i], "id", None), Get(cs[i], "name", None)>>]]

\* countries.get(key): the name of the last pair with this id
CountryName(countries, key) ==
    IF IsRaise(key) \/ IsRaise(countries) THEN Raise
    ELSE IF key.k \in {"list", "dict"} THEN Raise
    ELSE LET hits == { i \in 1..Len(countries.v) : countries.v[i][1] = key }
         IN  IF hits = {} THEN None
             ELSE countries.v[CHOOSE i \in hits : \A j \in hits : j <= i][2]

\* om.get(mid, {}): the odds table is keyed by the match id as fetched
OddsWrap(om, mid) ==
    IF ~IsDict(om) THEN Raise
    ELSE IF IsStr(mid) THEN Get(om, mid.v, EmptyDict) ELSE EmptyDict

\* line 248: the market dicts of all bookmakers in one dict.  Where two
\* bookmakers carry the same market the later one in the payload wins; the
\* payloads of this model carry one bookmaker.
OddsStruct(odds_wrap) ==
    LET results == GetAttr(odds_wrap, "results", EmptyDict)
    IN  IF IsRaise(results) \/ ~IsDict(results) THEN Raise
        ELSE IF \E b \in DOMAIN results.v : ~IsDict(results.v[b]) THEN Raise
        ELSE D([mt \in UNION { DOMAIN results.v[b].v : b \in DOMAIN results.v } |->
                  results.v[CHOOSE b \in DOMAIN results.v : mt \in DOMAIN results.v[b].v].v[mt]])

\* f.get("country") or countries.get(f.get("country_id"))
CountryOf(entity, countries) ==
    LET own == GetAttr(entity, "country", None)
    IN  IF IsRaise(own) THEN Raise
        ELSE IF Truthy(own) THEN own
        ELSE CountryName(countries, GetAttr(entity, "country_id", None))

\* the keys line 253-266 sets itself, over live and detail
ComputedKeys ==
    {"odds", "environment", "events", "home_team", "home_logo", "home_country",
     "away_team", "away_logo", "away_country", "competition", "competition_logo",
     "country", "odds_raw"}

\* a merge in which the stub's fields override the detail's
Merged_StubWins(stub, bundle) ==
    LET mid == Or(Get(stub, "id", None), Get(stub, "match_id", None))
        dm  == Get(bundle, "match_details", EmptyDict)
        om  == Get(bundle, "match_odds", EmptyDict)
        tm  == Get(bundle, "team_info", EmptyDict)
        cm  == Get(bundle, "competition_info", EmptyDict)
        countries == Countries(Get(bundle, "countries", EmptyDict))
        detail == first_result(dm, mid)
        odds_wrap == OddsWrap(om, mid)
        odds_struct == OddsStruct(odds_wrap)
        home == first_result(tm, Or(Get(stub, "home_team_id", None),
                                    GetAttr(detail, "home_team_id", None)))
        away == first_result(tm, Or(Get(stub, "away_team_id", None),
                                    GetAttr(detail, "away_team_id", None)))
        comp == first_result(cm, Or(Get(stub, "competition_id", None),
                                    GetAttr(detail, "competition_id", None)))
        computed ==
            [odds |-> odds_struct,
             environment |-> GetAttr(detail, "environment", Get(stub, "environment", EmptyDict)),
             events |-> GetAttr(detail, "events", Get(stub, "events", EmptyList)),
             home_team |-> Or(GetAttr(home, "name", None), Get(stub, "home_name", None)),
             home_logo |-> GetAttr(home, "logo", None),
             home_country |-> CountryOf(home, countries),
             away_team |-> Or(GetAttr(away, "name", None), Get(stub, "away_name", None)),
             away_logo |-> GetAttr(away, "logo", None),
             away_country |-> CountryOf(away, countries),
             competition |-> Or(GetAttr(comp, "name", None), Get(stub, "competition_name", None)),
             competition_logo |-> GetAttr(comp, "logo", None),
             country |-> CountryOf(comp, countries),
             odds_raw |-> odds_wrap]
    IN  IF \/ IsRaise(countries) \/ IsRaise(detail) \/ IsRaise(odds_wrap)
           \/ IsRaise(odds_struct) \/ IsRaise(home) \/ IsRaise(away) \/ IsRaise(comp)
           \/ ~IsDict(detail)
           \/ \E key \in ComputedKeys : IsRaise(computed[key])
        THEN Raise
        ELSE D(computed @@ stub.v @@ detail.v)

\* lines 236-267: the merged record, or Raise
Merged(stub, bundle) ==
    LET mid == Or(Get(stub, "id", None), Get(stub, "match_id", None))
        dm  == Get(bundle, "match_details", EmptyDict)
        om  == Get(bundle, "match_odds", EmptyDict)
        tm  == Get(bundle, "team_info", EmptyDict)
        cm  == Get(bundle, "competition_info", EmptyDict)
        countries == Countries(Get(bundle, "countries", EmptyDict))
        detail == first_result(dm, mid)
        odds_wrap == OddsWrap(om, mid)
        odds_struct == OddsStruct(odds_wrap)
        home == first_result(tm, Or(Get(stub, "home_team_id", None),
                                    GetAttr(detail, "home_team_id", None)))
        away == first_result(tm, Or(Get(stub, "away_team_id", None),
                                    GetAttr(detail, "away_team_id", None)))
        comp == first_result(cm, Or(Get(stub, "competition_id", None),
                                    GetAttr(detail, "competition_id", None)))
        computed ==
            [odds |-> odds_struct,
             environment |-> GetAttr(detail, "environment", Get(stub, "environment", EmptyDict)),
             events |-> GetAttr(detail, "events", Get(stub, "events", EmptyList)),
             home_team |-> Or(GetAttr(home, "name", None), Get(stub, "home_name", None)),
             home_logo |-> GetAttr(home, "logo", None),
             home_country |-> CountryOf(home, countries),
             away_team |-> Or(GetAttr(away, "name", None), Get(stub, "away_name", None)),
             away_logo |-> GetAttr(away, "logo", None),
             away_country |-> CountryOf(away, countries),
             competition |-> Or(GetAttr(comp, "name", None), Get(stub, "competition_name", None)),
             competition_logo |-> GetAttr(comp, "logo", None),
             country |-> CountryOf(comp, countries),
             odds_raw |-> odds_wrap]
    IN  IF \/ IsRaise(countries) \/ IsRaise(detail) \/ IsRaise(odds_wrap)
           \/ IsRaise(odds_struct) \/ IsRaise(home) \/ IsRaise(away) \/ IsRaise(comp)
           \/ ~IsDict(detail)
           \/ \E key \in ComputedKeys : IsRaise(computed[key])
        THEN Raise
        ELSE D(computed @@ detail.v @@ stub.v)

\* lines 235-268
merge_and_summarize(stub, bundle) ==
    LET merged == Merged(stub, bundle)
    IN  IF IsRaise(merged) THEN Raise ELSE extract_summary_fields(merged)

----------------------------------------------------------------------------
(* Country Inference and Competition Grouper: infer_country_from_teams and *)
(* sort_matches_by_competition_and_time                                    *)

\* c.upper() of one character
UpperChar(c) ==
    IF \E i \in 1..Len(LowerCase) : SubSeq(LowerCase, i, i) = c
    THEN LET i == CHOOSE j \in 1..Len(LowerCase) : SubSeq(LowerCase, j, j) = c
         IN  SubSeq(UpperCase, i, i)
    ELSE c

IsLetter(c) == UpperChar(c) # c \/ LowerChar(c) # c

\* s.title(): a letter that follows no letter is upper-cased, every other
\* letter lower-cased
RECURSIVE Title(_)
Title(s) ==
    IF Len(s) = 0 THEN ""
    ELSE LET n == Len(s)
             c == SubSeq(s, n, n)
         IN  Title(SubSeq(s, 1, n - 1))
             \o (IF n = 1 \/ ~IsLetter(SubSeq(s, n - 1, n - 1))
                 THEN UpperChar(c) ELSE LowerChar(c))

\* lines 495-515, in the order of the dict
country_indicators ==
    << <<"australia", <<"australia", "aussie", "socceroos", "matildas">> >>,
       <<"argentina", <<"argentina", "boca", "river plate", "racing club">> >>,
       <<"brazil", <<"brazil", "sao paulo", "flamengo", "corinthians", "palmeiras">> >>,
       <<"england", <<"england", "manchester", "liverpool", "chelsea", "arsenal",
                      "tottenham">> >>,
       <<"spain", <<"spain", "real madrid", "barcelona", "atletico", "sevilla",
                    "valencia">> >>,
       <<"germany", <<"germany", "bayern", "borussia", "schalke", "hamburg">> >>,
       <<"france", <<"france", "psg", "marseille", "lyon", "monaco", "saint-etienne">> >>,
       <<"italy", <<"italy", "juventus", "inter", "milan", "roma", "napoli", "lazio">> >>,
       <<"netherlands", <<"netherlands", "ajax", "psv", "feyenoord">> >>,
       <<"portugal", <<"portugal", "porto", "benfica", "sporting">> >>,
       <<"mexico", <<"mexico", "america", "guadalajara", "cruz azul", "pumas">> >>,
       <<"usa", <<"usa", "united states", "la galaxy", "seattle sounders", "new york">> >>,
       <<"south korea", <<"korea", "seoul", "busan", "daegu">> >>,
       <<"japan", <<"japan", "tokyo", "osaka", "yokohama", "kashima">> >>,
       <<"china", <<"china", "beijing", "shanghai", "guangzhou">> >>,
       <<"russia", <<"russia", "moscow", "spartak", "cska", "dynamo", "zenit">> >>,
       <<"norway", <<"norway", "oslo", "bergen">> >>,
       <<"czech republic", <<"czech", "praha", "prague", "brno">> >>,
       <<"austria", <<"austria", "vienna", "salzburg">> >> >>

\* the countries with an indicator in the text, in table order.  The code's
\* lists hold a country once per matching indicator; it reads only whether
\* a list is empty and its first element.
MatchingCountries(text) ==
    LET hit(ci) == \E i \in 1..Len(ci[2]) : Contains(text, ci[2][i])
        idx == { i \in 1..Len(country_indicators) : hit(country_indicators[i]) }
        nth(p) == CHOOSE i \in idx : Cardinality({ j \in idx : j < i }) = p - 1
    IN  [p \in 1..Cardinality(idx) |-> country_indicators[nth(p)][1]]

\* match_data.get(key, '').lower(): only a string has .lower
LowerField(match_data, key) ==
    LET val == GetAttr(match_data, key, S(""))
    IN  IF IsRaise(val) \/ ~IsStr(val) THEN Raise ELSE S(Lower(val.v))

\* lines 532-537 only: the scan over the joined team text, whatever the
\* competition
infer_country_from_teams_ScanOnly(match_data) ==
    LET home_team == LowerField(match_data, "home_team")
        away_team == LowerField(match_data, "away_team")
        competition == LowerField(match_data, "competition")
    IN  IF IsRaise(home_team) \/ IsRaise(away_team) \/ IsRaise(competition) THEN Raise
        ELSE LET scan == MatchingCountries(home_team.v \o " " \o away_team.v)
             IN  IF Len(scan) > 0 THEN S(Title(scan[1])) ELSE S("Unknown")

\* lines 491-537
infer_country_from_teams(match_data) ==
    LET home_team == LowerField(match_data, "home_team")
        away_team == LowerField(match_data, "away_team")
        competition == LowerField(match_data, "competition")
    IN  IF IsRaise(home_team) \/ IsRaise(away_team) \/ IsRaise(competition) THEN Raise
        ELSE LET home_countries == MatchingCountries(home_team.v)
                 away_countries == MatchingCountries(away_team.v)
                 team_text == home_team.v \o " " \o away_team.v
                 scan == MatchingCountries(team_text)
                 friendly == /\ Contains(competition.v, "international")
                             /\ Contains(competition.v, "friendly")
                 home == Len(home_countries) > 0
                 away == Len(away_countries) > 0
             IN  IF friendly /\ home /\ away /\ home_countries[1] # away_countries[1]
                 THEN S("International")
                 ELSE IF friendly /\ home /\ ~away THEN S(Title(home_countries[1]))
                 ELSE IF friendly /\ away /\ ~home THEN S(Title(away_countries[1]))
                 ELSE IF friendly /\ home /\ away THEN S(Title(home_countries[1]))
                 ELSE IF Len(scan) > 0 THEN S(Title(scan[1]))
                 ELSE S("Unknown")

\* the characters of names, in code-point order
CodeOrder == " '-.0123456789ABCDEFGHIJKLMNOPQRSTUVWXYZabcdefghijklmnopqrstuvwxyz"

CharCode(c) == CHOOSE i \in 1..Len(CodeOrder) : SubSeq(CodeOrder, i, i) = c

\* a < b for strings
RECURSIVE StrLess(_, _)
StrLess(a, b) ==
    IF Len(b) = 0 THEN FALSE
    ELSE IF Len(a) = 0 THEN TRUE
    ELSE IF SubSeq(a, 1, 1) = SubSeq(b, 1, 1)
    THEN StrLess(SubSeq(a, 2, Len(a)), SubSeq(b, 2, Len(b)))
    ELSE CharCode(SubSeq(a, 1, 1)) < CharCode(SubSeq(b, 1, 1))

\* a < b is defined: two strings or two integers
Comparable(a, b) == (IsStr(a) /\ IsStr(b)) \/ (IsInt(a) /\ IsInt(b))

\* a < b
ValLess(a, b) == IF IsStr(a) THEN StrLess(a.v, b.v) ELSE a.v < b.v

\* k1 < k2 for two-element tuples: decided by the first elements that differ
KeyLess(k1, k2) ==
    IF k1[1] # k2[1] THEN ValLess(k1[1], k2[1])
    ELSE k1[2] # k2[2] /\ ValLess(k1[2], k2[2])

KeysComparable(k1, k2) ==
    IF k1[1] # k2[1] THEN Comparable(k1[1], k2[1])
    ELSE k1[2] = k2[2] \/ Comparable(k1[2], k2[2])

\* list.sort(key=...) / sorted(..., key=...) over <<key, item>> pairs: the
\* items in ascending key order, items of equal key in input order; raises
\* when two keys cannot be compared
SortedByKey(pairs) ==
    LET n == Len(pairs)
        before(j, i) ==
            \/ KeyLess(pairs[j][1], pairs[i][1])
            \/ (~KeyLess(pairs[i][1], pairs[j][1]) /\ j < i)
        pos(i) == 1 + Cardinality({ j \in 1..n : j # i /\ before(j, i) })
    IN  IF \E i, j \in 1..n : ~KeysComparable(pairs[i][1], pairs[j][1]) THEN Raise
        ELSE L([q \in 1..n |-> pairs[CHOOSE i \in 1..n : pos(i) = q][2]])

\* line 343
status_order == (2 :> 1) @@ (3 :> 2) @@ (4 :> 3) @@ (5 :> 4) @@ (6 :> 5) @@ (7 :> 6)

\* the rank with a missing or other status ranked 0, ahead of every status
StatusRank_MissingFirst(match_data) ==
    LET sid == Get(match_data, "status_id", I(99))
    IN  IF IsInt(sid) /\ sid.v \in DOMAIN status_order THEN status_order[sid.v] ELSE 0

\* status_order.get(item[1].get("status_id", 99), 99)
StatusRank(match_data) ==
    LET sid == Get(match_data, "status_id", I(99))
    IN  IF IsInt(sid) /\ sid.v \in DOMAIN status_order THEN status_order[sid.v] ELSE 99

\* line 336
CompetitionOf(match_data) == GetAttr(match_data, "competition", S("Unknown Competition"))

\* lines 337-339: the country of one match
CountryOfMatch(match_data) ==
    LET country == Or(GetAttr(match_data, "country", S("Unknown")), S("Unknown"))
    IN  IF country \in {None, S("None")} THEN infer_country_from_teams(match_data)
        ELSE country

\* lines 334-347: competition_groups after both loops, in insertion order;
\* items are the <<match_id, match_data>> pairs of matches.items()
competition_groups(items) ==
    LET n == Len(items)
        comp(i) == CompetitionOf(items[i][2])
        first == { i \in 1..n : \A j \in 1..(i - 1) : comp(j) # comp(i) }
        nth(p) == CHOOSE i \in first : Cardinality({ j \in first : j < i }) = p - 1
        members(c) == SelectSeq(items, LAMBDA item : CompetitionOf(item[2]) = c)
        keyed(c) == [i \in 1..Len(members(c)) |->
                       << <<I(StatusRank(members(c)[i][2])),
                            Get(members(c)[i][2], "match_id", S(""))>>,
                          members(c)[i] >>]
        group(p) == [comp    |-> comp(nth(p)),
                     country |-> CountryOfMatch(items[nth(p)][2]),
                     matches |-> SortedByKey(keyed(comp(nth(p))))]
    IN  IF \E i \in 1..n :
              \/ ~IsDict(items[i][2])
              \/ comp(i).k \in {"list", "dict"}
              \/ IsRaise(CountryOfMatch(items[i][2]))
        THEN Raise
        ELSE IF \E p \in 1..Cardinality(first) : IsRaise(group(p).matches) THEN Raise
        ELSE L([p \in 1..Cardinality(first) |-> group(p)])

\* the result without the sort of lines 348-351: groups in insertion order
sort_matches_by_competition_and_time_Unordered(items) ==
    LET cg == competition_groups(items)
    IN  IF IsRaise(cg) THEN Raise
        ELSE L([p \in 1..Len(cg.v) |-> <<cg.v[p].comp, cg.v[p].matches>>])

\* lines 333-353: the result dict as its <<comp, matches>> items in order
sort_matches_by_competition_and_time(items) ==
    LET cg == competition_groups(items)
    IN  IF IsRaise(cg) THEN Raise
        ELSE SortedByKey([p \in 1..Len(cg.v) |->
                            << <<Or(cg.v[p].country, S("Unknown")), cg.v[p].comp>>,
                               <<cg.v[p].comp, cg.v[p].matches>> >>])

----------------------------------------------------------------------------
(* History Store: save_match_summaries *)

MAX_HISTORY_ENTRIES == 100

\* file content json.load rejects (an empty or partially written file too)
Unparseable == [k |-> "unparseable"]

NoFile == [exists |-> FALSE, content |-> None]
FileOf(c) == [exists |-> TRUE, content |-> c]

\* the keys of grouped: str(match_id) of every summary that has a match id
GroupedKeys(summaries) ==
    { PyStr(Get(summaries[i], "match_id", None)) :
        i \in { j \in 1..Len(summaries) : Truthy(Get(summaries[j], "match_id", None)) } }

\* grouped = {str(s.get("match_id")): s for s in summaries if s.get("match_id")}
\* a later summary with the same key replaces an earlier one
Grouped(summaries) ==
    D([ key \in GroupedKeys(summaries) |->
          LET idx == { j \in 1..Len(summaries) :
                         /\ Truthy(Get(summaries[j], "match_id", None))
                         /\ PyStr(Get(summaries[j], "match_id", None)) = key }
          IN  summaries[CHOOSE j \in idx : \A j2 \in idx : j2 <= j] ])

\* the batch a save builds at time now
Batch(summaries, now) ==
    LET grouped == Grouped(summaries)
    IN  D([timestamp     |-> I(now),
           total_matches |-> I(Cardinality(DOMAIN grouped.v)),
           matches       |-> grouped])

\* lines 201-205: the document the save starts from
LoadData(f) ==
    IF ~f.exists THEN D([history |-> EmptyList])
    ELSE IF f.content = Unparseable THEN Raise
    ELSE IF IsDict(f.content) /\ Truthy(Get(f.content, "history", None))
         THEN f.content
         ELSE D([history |-> L(<<f.content>>)])

\* a rotation that keeps the oldest MAX_HISTORY_ENTRIES elements
Rotate_KeepOldest(h) ==
    LET n == PyLen(h)
    IN  IF IsRaise(n) THEN Raise
        ELSE IF n.v >= MAX_HISTORY_ENTRIES
             THEN CASE IsList(h) -> L(SubSeq(h.v, 1, MAX_HISTORY_ENTRIES))
                    [] IsStr(h)  -> h
                    [] OTHER     -> Raise
             ELSE h

\* lines 207-210: data["history"] cut to the last MAX_HISTORY_ENTRIES
Rotate(h) ==
    LET n == PyLen(h)
    IN  IF IsRaise(n) THEN Raise
        ELSE IF n.v >= MAX_HISTORY_ENTRIES
             THEN CASE IsList(h) -> L(LastN(h.v, MAX_HISTORY_ENTRIES))
                    [] IsStr(h)  -> h
                    [] OTHER     -> Raise
             ELSE h

\* line 212: data["history"].append(batch); only a list has append
HistoryAppend(h, batch) ==
    IF IsRaise(h) THEN Raise
    ELSE IF IsList(h) THEN L(Append(h.v, batch)) ELSE Raise

\* an update that counts the entries before it appends the batch
UpdatedDocument_CountBeforeAppend(data, batch) ==
    LET r == Rotate(data.v.history)
        h == HistoryAppend(r, batch)
    IN  IF IsRaise(h) THEN Raise
        ELSE D([key \in DOMAIN data.v \cup
                        {"history", "last_updated", "total_entries",
                         "latest_match_count", "ny_timestamp"} |->
                  CASE key = "history"            -> h
                    [] key = "last_updated"       -> batch.v.timestamp
                    [] key = "total_entries"      -> I(Len(r.v))
                    [] key = "latest_match_count" -> batch.v.total_matches
                    [] key = "ny_timestamp"       -> batch.v.timestamp
                    [] OTHER                      -> data.v[key]])

\* lines 207-218: the loaded document with the batch appended, or Raise
UpdatedDocument(data, batch) ==
    LET h == HistoryAppend(Rotate(data.v.history), batch)
    IN  IF IsRaise(h) THEN Raise
        ELSE D([key \in DOMAIN data.v \cup
                        {"history", "last_updated", "total_entries",
                         "latest_match_count", "ny_timestamp"} |->
                  CASE key = "history"            -> h
                    [] key = "last_updated"       -> batch.v.timestamp
                    [] key = "total_entries"      -> I(Len(h.v))
                    [] key = "latest_match_count" -> batch.v.total_matches
                    [] key = "ny_timestamp"       -> batch.v.timestamp
                    [] OTHER                      -> data.v[key]])

\* lines 201-218: the document to write, or Raise
NewDocument(f, batch) ==
    LET data == LoadData(f)
    IN  IF IsRaise(data) THEN Raise ELSE UpdatedDocument(data, batch)

\* line 205: whether the loaded document is wrapped as the first element of
\* a new history list
Wrapped(f) ==
    f.exists /\ f.content # Unparseable
             /\ ~(IsDict(f.content) /\ Truthy(Get(f.content, "history", None)))

\* lines 205 and 212: the elements one save places in the history list
PlacedBy(f, batch) == IF Wrapped(f) THEN <<f.content, batch>> ELSE <<batch>>

\* the elements of the history list a backing file holds
HistoryOf(f) ==
    IF f.exists /\ IsDict(f.content) /\ IsList(Get(f.content, "history", None))
    THEN f.content.v.history.v
    ELSE << >>

\* outcome of opening the file for writing and dumping the document
IoOutcomes == {"ok", "open_fails", "dump_fails"}

\* lines 192-224: the file after the call and the value returned
save_match_summaries(summaries, f, now, io) ==
    LET doc == NewDocument(f, Batch(summaries, now))
    IN  IF IsRaise(doc) THEN [file |-> f, ret |-> FALSE]
        ELSE CASE io = "ok"         -> [file |-> FileOf(doc), ret |-> TRUE]
               [] io = "open_fails" -> [file |-> f, ret |-> FALSE]
               [] io = "dump_fails" -> [file |-> FileOf(Unparseable), ret |-> FALSE]

\* a summary as the merger produces it, reduced to the fields the store reads
Summary(mid, tag) == D([match_id |-> mid, start_time |-> I(tag)])

\* the summaries of an ordinary cycle
PlainSummaries == <<Summary(S("m1"), 1)>>

\* summaries lists given to the first MaxVaried saves
VariedSummaries ==
    { <<Summary(S("m1"), 1), Summary(S("m2"), 2)>>,
      <<Summary(S("m1"), 1), Summary(None, 2)>>,
      <<Summary(I(7), 1), Summary(S("7"), 2)>>,
      <<Summary(S("m1"), 1), Summary(S("m1"), 2), Summary(S("m2"), 3)>> }

SummaryInputs(t) == IF t <= MaxVaried THEN VariedSummaries ELSE {PlainSummaries}
IoInputs(t)      == IF t <= MaxVaried THEN IoOutcomes ELSE {"ok"}

\* a document written by n earlier cycles, the last at time 0
OldDocument(n) ==
    LET h == [i \in 1..n |-> Batch(PlainSummaries, i - n)]
    IN  D([history            |-> L(h),
           last_updated       |-> I(0),
           total_entries      |-> I(n),
           latest_match_count |-> I(1),
           ny_timestamp       |-> I(0)])

\* lengths of the history in a backing file found at start
OldLengths == {1, 99, 100, 101, 150}

\* backing files a first save may find
InitialFiles ==
    {NoFile, FileOf(Unparseable)}
    \cup { FileOf(c) : c \in {None, I(5), S("legacy"), L(<<I(1)>>), EmptyDict,
                               D([matches |-> EmptyDict]),
                               D([history |-> EmptyList]),
                               D([history |-> None]),
                               D([history |-> S("abc")]),
                               D([history |-> I(5)]),
                               D([history |-> D([a |-> None])])} }
    \cup { FileOf(OldDocument(n)) : n \in OldLengths }

IdleWriters ==
    /\ wpc = "idle" /\ wdata = "idle" /\ wbatch = "idle" /\ wret = "idle"
    /\ wcalls = "idle"
IdleHistory ==
    /\ file = NoFile /\ file0 = NoFile /\ nOk = 0 /\ clock = 0
    /\ ret = "none" /\ prev = NoFile /\ lastBatch = None /\ lastIo = "none"
    /\ lastSummaries = << >> /\ placed = << >>
IdleMerge == live = None /\ payload = None /\ summary = NotRun
IdleGroup == matches = << >> /\ groups = NotRun
IdleOdds  == odds_entries = << >> /\ selected = NotRun
IdleAccessor == acc_mapping = None /\ acc_key = None /\ acc_result = NotRun
IdleMarket == market_match = None /\ market_odds = NotRun
IdleEnv    == env_raw = None /\ env_parsed = NotRun
IdleCls    == cls_match = None /\ cls_result = NotRun
IdleFeed   == feed = None /\ feed_summary = NotRun
IdleInfer  == inf_match = None /\ inferred = NotRun
IdleRerun  == rerun_given = None /\ rerun_results = << >> /\ rerun_clock = 0
IdleFetch  == fj_pc = "idle" /\ fj_attempt = 0 /\ fj_log = << >> /\ fj_ret = NotRun

InitHistory ==
    /\ file \in InitialFiles
    /\ file0 = file
    /\ nOk = 0
    /\ clock = 1
    /\ ret = "none"
    /\ prev = file
    /\ lastBatch = None
    /\ lastIo = "none"
    /\ lastSummaries = << >>
    /\ placed = HistoryOf(file)
    /\ IdleWriters /\ IdleMerge /\ IdleGroup /\ IdleOdds /\ IdleAccessor
    /\ IdleMarket /\ IdleEnv /\ IdleCls /\ IdleFeed /\ IdleInfer
    /\ IdleRerun /\ IdleFetch

\* the value a call returned, as recorded in ret
Returned(b) == IF b THEN "True" ELSE "False"

\* one call of save_match_summaries
Save ==
    /\ clock <= MaxSaves
    /\ \E summaries \in SummaryInputs(clock), io \in IoInputs(clock) :
          LET r == save_match_summaries(summaries, file, clock, io)
          IN  /\ file' = r.file
              /\ ret' = Returned(r.ret)
              /\ nOk' = IF r.ret THEN nOk + 1 ELSE nOk
              /\ lastBatch' = Batch(summaries, clock)
              /\ lastIo' = io
              /\ lastSummaries' = summaries
              /\ placed' = IF r.ret
                           THEN placed \o PlacedBy(file, Batch(summaries, clock))
                           ELSE placed
    /\ prev' = file
    /\ clock' = clock + 1
    /\ UNCHANGED <<file0, writerVars, mergeVars, groupVars, oddsVars, accVars,
                   marketVars, envVars, clsVars, feedVars, inferVars,
                   rerunVars, fetchVars>>

NextHistory == Save

SpecHistory == InitHistory /\ [][NextHistory]_vars

\* the history list of the backing file after a successful save
History == file.content.v.history.v

\* the timestamps of the batches in the history, in order
Timestamps == [i \in 1..Len(History) |-> GetAttr(History[i], "timestamp", None)]

----------------------------------------------------------------------------
(* History Store: two processes running save_match_summaries on one file.  *)
(* The function takes no lock (fcntl is imported and never called), so the *)
(* steps of two calls interleave at every file operation.                  *)

Writers == {1, 2}

\* the summaries writer w saves in its c-th call
WriterSummaries(w, c) == <<Summary(S("w" \o ToString(w)), c)>>

\* backing files the writers may find
WriterInitialFiles == {NoFile, FileOf(OldDocument(1)), FileOf(S("legacy"))}

InitWriters ==
    /\ file \in WriterInitialFiles
    /\ file0 = file
    /\ clock = 3
    /\ wpc = [w \in Writers |-> "start"]
    /\ wdata = [w \in Writers |-> None]
    /\ wbatch = [w \in Writers |-> Batch(WriterSummaries(w, 1), w)]
    /\ wret = [w \in Writers |-> "none"]
    /\ wcalls = [w \in Writers |-> 1]
    /\ nOk = 0 /\ ret = "none" /\ prev = NoFile /\ lastBatch = None /\ lastIo = "none"
    /\ lastSummaries = << >> /\ placed = << >>
    /\ IdleMerge /\ IdleGroup /\ IdleOdds /\ IdleAccessor
    /\ IdleMarket /\ IdleEnv /\ IdleCls /\ IdleFeed /\ IdleInfer
    /\ IdleRerun /\ IdleFetch

\* lines 201-205: the writer reads the file; a file json.load rejects ends
\* the call with False
WLoad(w) ==
    /\ wpc[w] = "start"
    /\ LET data == LoadData(file)
       IN  IF IsRaise(data)
           THEN /\ wpc' = [wpc EXCEPT ![w] = "done"]
                /\ wret' = [wret EXCEPT ![w] = "False"]
                /\ UNCHANGED wdata
           ELSE /\ wpc' = [wpc EXCEPT ![w] = "loaded"]
                /\ wdata' = [wdata EXCEPT ![w] = data]
                /\ UNCHANGED wret
    /\ UNCHANGED <<file, file0, nOk, clock, ret, prev, lastBatch, lastIo, lastSummaries, placed,
                   wbatch, wcalls, mergeVars, groupVars, oddsVars, accVars,
                   marketVars, envVars, clsVars, feedVars, inferVars,
                   rerunVars, fetchVars>>

\* lines 207-220: the writer updates its copy and opens the file for
\* writing, which empties the file
WOpen(w) ==
    /\ wpc[w] = "loaded"
    /\ LET doc == UpdatedDocument(wdata[w], wbatch[w])
       IN  IF IsRaise(doc)
           THEN /\ wpc' = [wpc EXCEPT ![w] = "done"]
                /\ wret' = [wret EXCEPT ![w] = "False"]
                /\ UNCHANGED <<wdata, file>>
           ELSE /\ wpc' = [wpc EXCEPT ![w] = "opened"]
                /\ wdata' = [wdata EXCEPT ![w] = doc]
                /\ file' = FileOf(Unparseable)
                /\ UNCHANGED wret
    /\ UNCHANGED <<file0, nOk, clock, ret, prev, lastBatch, lastIo, lastSummaries, placed,
                   wbatch, wcalls, mergeVars, groupVars, oddsVars, accVars,
                   marketVars, envVars, clsVars, feedVars, inferVars,
                   rerunVars, fetchVars>>

\* lines 221-222: the writer dumps its document and returns True
WDump(w) ==
    /\ wpc[w] = "opened"
    /\ file' = FileOf(wdata[w])
    /\ wpc' = [wpc EXCEPT ![w] = "done"]
    /\ wret' = [wret EXCEPT ![w] = "True"]
    /\ UNCHANGED <<file0, nOk, clock, ret, prev, lastBatch, lastIo, lastSummaries, placed,
                   wdata, wbatch, wcalls, mergeVars, groupVars, oddsVars, accVars,
                   marketVars, envVars, clsVars, feedVars, inferVars,
                   rerunVars, fetchVars>>

\* lines 193-198: the writer's next cycle calls the function again
WBegin(w) ==
    /\ wpc[w] = "done"
    /\ wcalls[w] < MaxWriterCalls
    /\ wcalls' = [wcalls EXCEPT ![w] = wcalls[w] + 1]
    /\ wbatch' = [wbatch EXCEPT ![w] = Batch(WriterSummaries(w, wcalls[w] + 1), clock)]
    /\ clock' = clock + 1
    /\ wpc' = [wpc EXCEPT ![w] = "start"]
    /\ wret' = [wret EXCEPT ![w] = "none"]
    /\ wdata' = [wdata EXCEPT ![w] = None]
    /\ UNCHANGED <<file, file0, nOk, ret, prev, lastBatch, lastIo, lastSummaries, placed,
                   mergeVars, groupVars, oddsVars, accVars,
                   marketVars, envVars, clsVars, feedVars, inferVars,
                   rerunVars, fetchVars>>

NextWriters == \E w \in Writers : WLoad(w) \/ WOpen(w) \/ WDump(w) \/ WBegin(w)

SpecWriters == InitWriters /\ [][NextWriters]_vars

\* the batch is an element of the history in the backing file
InHistory(batch) ==
    /\ file.exists
    /\ IsDict(file.content)
    /\ IsList(Get(file.content, "history", None))
    /\ \E i \in 1..Len(History) : History[i] = batch

----------------------------------------------------------------------------
(* The odds selectors applied to one odds series *)

\* an odds snapshot (timestamp, minute marker, three prices)
OddsEntry(ts, marker) == L(<<I(ts), marker, S("2.10"), S("3.25"), S("3.40")>>)

\* the snapshots and malformed entries a series is drawn from
EntryPool ==
    { OddsEntry(1, S("1")),  OddsEntry(2, S("2")),  OddsEntry(3, S("3")),
      OddsEntry(4, S("4")),  OddsEntry(6, S("6'")), OddsEntry(7, I(7)),
      OddsEntry(8, S("8")),  OddsEntry(12, S("12")),
      OddsEntry(45, S("HT")), OddsEntry(0, None),
      L(<<I(5)>>), S("5") }

OddsSeries == UNION { [1..n -> EntryPool] : n \in 0..MaxEntries }

InitOdds ==
    /\ odds_entries \in OddsSeries
    /\ selected = NotRun
    /\ IdleHistory /\ IdleWriters /\ IdleMerge /\ IdleGroup /\ IdleAccessor
    /\ IdleMarket /\ IdleEnv /\ IdleCls /\ IdleFeed /\ IdleInfer
    /\ IdleRerun /\ IdleFetch

\* both selectors applied to the series
Filter ==
    /\ selected = NotRun
    /\ selected' = [step7 |-> filter_odds_by_time(L(odds_entries)),
                    step2 |-> filter_by_time(L(odds_entries))]
    /\ UNCHANGED <<odds_entries, histVars, writerVars, mergeVars, groupVars, accVars,
                   marketVars, envVars, clsVars, feedVars, inferVars,
                   rerunVars, fetchVars>>

NextOdds == Filter

SpecOdds == InitOdds /\ [][NextOdds]_vars

----------------------------------------------------------------------------
(* merge_and_summarize applied to one stub and one side-table bundle *)

\* marks a side table that has no entry (never part of a payload)
Absent == [k |-> "absent"]

\* a table with one entry under key, or none
Table(key, entry) == IF entry = Absent THEN EmptyDict ELSE D([x \in {key} |-> entry])

Results(q) == D([results |-> L(q)])
Result(q)  == D([result |-> L(q)])

ScoreA == L(<<S("m1"), I(1), L(<<I(1), I(0), I(0)>>), L(<<I(0), I(0), I(0)>>)>>)
ScoreB == L(<<S("m1"), I(2), L(<<I(2), I(1), I(0)>>), L(<<I(1), I(1), I(0)>>)>>)

EnvStub   == D([weather |-> S("1"), temperature |-> S("25C"), wind |-> S("5m/s")])
EnvDetail ==
    D([weather |-> I(3), temperature |-> S("-2C"), wind |-> S("3.5 m/s"),
       pressure |-> S("1013hPa"), humidity |-> S("60%")])

Event(type, time) == D([type |-> S(type), time |-> I(time), team |-> S("home")])
EventsStub   == L(<<Event("goal", 10)>>)
EventsDetail == L(<<Event("corner", 5), Event("goal", 10), Event("redcard", 30)>>)

SeriesEu == L(<<OddsEntry(1, S("1")), OddsEntry(4, S("4")), OddsEntry(8, S("8"))>>)
SeriesBs == L(<<OddsEntry(3, S("3")), OddsEntry(5, S("5"))>>)

\* live-feed stubs
Stubs ==
    { D([id |-> S("m1"), home_team_id |-> S("t1"), away_team_id |-> S("t2"),
         competition_id |-> S("c1"), status_id |-> I(1), score |-> ScoreA,
         environment |-> EnvStub, events |-> EventsStub,
         odds |-> D([eu |-> SeriesBs])]),
      D([id |-> S("m1"), home_name |-> S("Inline Home"), away_name |-> S("Inline Away"),
         competition_name |-> S("Inline Cup"), status_id |-> I(1)]),
      D([id |-> S("m1")]),
      D([status_id |-> I(1), home_team_id |-> S("t1")]),
      D([id |-> S("m1"), home_team_id |-> S("t1"), competition_id |-> S("c1"),
         events |-> None]) }

DetailA ==
    D([id |-> S("m1"), status_id |-> I(2), score |-> ScoreB, environment |-> EnvDetail,
       events |-> EventsDetail, competition_id |-> S("c2"),
       home_team_id |-> S("t2"), away_team_id |-> S("t1")])
DetailB == D([status_id |-> I(3), events |-> EmptyList])
DetailC == D([status_id |-> I(4), environment |-> D([wind |-> S("-")]), events |-> EmptyList])

\* what match_details holds for the match
DetailWraps ==
    { Absent, EmptyDict, Results(<<DetailA>>), Result(<<DetailA>>),
      Results(<<S("x")>>), D([results |-> S("oops")]),
      D([results |-> EmptyList, result |-> L(<<DetailB>>)]),
      Results(<<DetailC>>) }

\* what match_odds holds for the match
OddsWraps ==
    { Absent, EmptyDict,
      D([results |-> D([b2 |-> D([eu |-> SeriesEu, asia |-> SeriesEu, bs |-> SeriesBs])])]),
      D([results |-> D([eu |-> SeriesEu])]),
      D([results |-> L(<<SeriesEu>>)]),
      D([results |-> D([b2 |-> D([eu |-> I(5)])])]) }

TeamA == D([name |-> S("Juventus"), logo |-> S("juve.png"), country_id |-> S("k1")])
TeamB == D([name |-> S("Real Madrid"), country |-> S("Spain"), country_id |-> S("k1")])

\* team_info
TeamTables ==
    { EmptyDict,
      D([t1 |-> Results(<<TeamA>>), t2 |-> Result(<<TeamB>>)]),
      D([t1 |-> Results(<<D([logo |-> S("x.png")])>>), t2 |-> EmptyDict]),
      D([t1 |-> Results(<<S("oops")>>)]) }

CompA == D([name |-> S("Serie A"), logo |-> S("a.png"), country_id |-> S("k1")])
CompB == D([name |-> S("La Liga"), country |-> S("Spain")])

\* competition_info
CompetitionTables ==
    { EmptyDict,
      D([c1 |-> Results(<<CompA>>), c2 |-> Results(<<CompB>>)]),
      D([c1 |-> Results(<<D([logo |-> S("x.png")])>>)]),
      D([c1 |-> Results(<<D([name |-> S("Copa"), country_id |-> S("k9")])>>)]) }

CountryList ==
    <<D([id |-> S("k1"), name |-> S("Italy")]), D([id |-> S("k2"), name |-> S("Spain")])>>

\* countries
CountryBundles ==
    { Absent, Results(CountryList), Result(CountryList),
      D([results |-> I(5)]), D([results |-> D([k1 |-> S("Italy")])]) }

Bundle(dw, ow, tm, cm, cw) ==
    D([match_details    |-> Table("m1", dw),
       match_odds       |-> Table("m1", ow),
       team_info        |-> tm,
       competition_info |-> cm]
      @@ (IF cw = Absent THEN NoKeys ELSE [countries |-> cw]))

Bundles ==
    { Bundle(dw, ow, tm, cm, cw) :
        dw \in DetailWraps, ow \in OddsWraps, tm \in TeamTables,
        cm \in CompetitionTables, cw \in CountryBundles }

InitMerge ==
    /\ live \in Stubs
    /\ payload \in Bundles
    /\ summary = NotRun
    /\ IdleHistory /\ IdleWriters /\ IdleGroup /\ IdleOdds /\ IdleAccessor
    /\ IdleMarket /\ IdleEnv /\ IdleCls /\ IdleFeed /\ IdleInfer
    /\ IdleRerun /\ IdleFetch

\* one call of merge_and_summarize
Merge ==
    /\ summary = NotRun
    /\ summary' = merge_and_summarize(live, payload)
    /\ UNCHANGED <<live, payload, histVars, writerVars, groupVars, oddsVars, accVars,
                   marketVars, envVars, clsVars, feedVars, inferVars,
                   rerunVars, fetchVars>>

NextMerge == Merge

SpecMerge == InitMerge /\ [][NextMerge]_vars

----------------------------------------------------------------------------
(* first_result applied to one side table and one key *)

\* what an envelope holds under "results" or under "result"
EnvelopeValues ==
    { Absent, None, EmptyList, L(<<TeamA>>), L(<<TeamB, TeamA>>), L(<<S("x")>>),
      S("oops"), S(""), EmptyDict, D([name |-> S("n")]), I(0), I(5) }

\* the envelope with these values under "results" and "result"
Envelope(rs, r) ==
    D((IF rs = Absent THEN NoKeys ELSE [results |-> rs])
      @@ (IF r = Absent THEN NoKeys ELSE [result |-> r]))

\* what a side table holds under one id: an envelope, or something else
TableEntries ==
    { Envelope(rs, r) : rs \in EnvelopeValues, r \in EnvelopeValues }
    \cup { Absent, None, S("oops"), L(<<TeamA>>), I(5) }

\* the ids side tables are keyed by (str(id)), and the keys looked up
TableIds == {"t1", "7"}
LookupKeys == { None, S("t1"), I(7), S("zz"), L(<<S("t1")>>) }

InitAccessor ==
    /\ acc_mapping \in { Table(id, entry) : id \in TableIds, entry \in TableEntries }
    /\ acc_key \in LookupKeys
    /\ acc_result = NotRun
    /\ IdleHistory /\ IdleWriters /\ IdleMerge /\ IdleGroup /\ IdleOdds
    /\ IdleMarket /\ IdleEnv /\ IdleCls /\ IdleFeed /\ IdleInfer
    /\ IdleRerun /\ IdleFetch

\* one call of first_result
Lookup ==
    /\ acc_result = NotRun
    /\ acc_result' = first_result(acc_mapping, acc_key)
    /\ UNCHANGED <<acc_mapping, acc_key, histVars, writerVars, mergeVars, groupVars,
                   oddsVars, marketVars, envVars, clsVars, feedVars, inferVars,
                   rerunVars, fetchVars>>

NextAccessor == Lookup

SpecAccessor == InitAccessor /\ [][NextAccessor]_vars

----------------------------------------------------------------------------
(* sort_matches_by_competition_and_time applied to one dict of matches *)

\* a flat match record; a field given as Absent is left out
MatchData(comp, country, sid, home, away, mid) ==
    LET given == [competition |-> comp, country |-> country, status_id |-> sid,
                  home_team |-> home, away_team |-> away, match_id |-> mid]
    IN  D([f \in { g \in DOMAIN given : given[g] # Absent } |-> given[f]])

\* the match records a dict of matches is drawn from
MatchPool ==
    { MatchData(S("Serie A"), S("Italy"), I(2), S("Juventus"), S("Inter"), S("a")),
      MatchData(S("Serie A"), None, I(3), S("Juventus"), S("AS Roma"), S("b")),
      MatchData(S("La Liga"), S(""), I(2), S("Real Madrid"), S("Sevilla"), Absent),
      MatchData(S("La Liga"), S("Spain"), I(7), S("Valencia"), S("Getafe"), S("c")),
      MatchData(S("Cup"), Absent, I(9), S("FC Nowhere"), S("Elsewhere United"), S("d")),
      MatchData(S("International Friendly"), S("None"), I(2), S("Brazil U20"),
                S("Japan U20"), S("e")),
      MatchData(Absent, Absent, Absent, Absent, Absent, Absent),
      MatchData(S("J League"), S("None"), I(4), None, S("Kashima"), S("f")),
      MatchData(S("K League"), S("South Korea"), I(4), S("FC Seoul"), S("Busan"), S("a")),
      MatchData(Absent, S("None"), Absent, S("Ajax"), S("PSV"), S("g")),
      MatchData(S("Serie A"), S("Italy"), I(3), S("Milan"), S("Napoli"), S("B")),
      MatchData(S("Serie A"), S("Italy"), I(8), S("Lazio"), S("Torino"), S("A")) }

\* the key of the i-th match of the dict
MatchKey(i) == S("k" \o ToString(i))

InitGroup ==
    /\ matches \in { [i \in 1..Len(q) |-> <<MatchKey(i), q[i]>>] :
                       q \in UNION { [1..n -> MatchPool] : n \in 0..MaxMatches } }
    /\ groups = NotRun
    /\ IdleHistory /\ IdleWriters /\ IdleMerge /\ IdleOdds /\ IdleAccessor
    /\ IdleMarket /\ IdleEnv /\ IdleCls /\ IdleFeed /\ IdleInfer
    /\ IdleRerun /\ IdleFetch

\* one call of sort_matches_by_competition_and_time; competition_groups is
\* the function's local dict as it stands before the result is built
Group ==
    /\ groups = NotRun
    /\ groups' = [competition_groups |-> competition_groups(matches),
                  result |-> sort_matches_by_competition_and_time(matches)]
    /\ UNCHANGED <<matches, histVars, writerVars, mergeVars, oddsVars, accVars,
                   marketVars, envVars, clsVars, feedVars, inferVars,
                   rerunVars, fetchVars>>

NextGroup == Group

SpecGroup == InitGroup /\ [][NextGroup]_vars

----------------------------------------------------------------------------
(* Claims about the History Store *)

\* C1: once a save has returned True, the persisted history holds at most
\* MAX_HISTORY_ENTRIES (100) entries, whatever file the save found.
C1_HistoryAtMost100 ==
    ret = "True" => Len(History) <= MAX_HISTORY_ENTRIES

\* C2: starting without a backing file, after 101 successive successful
\* saves the history holds exactly 100 entries: the 2nd to the 101st batch,
\* in append order.
C2_Keeps2ndTo101st ==
    (file0 = NoFile /\ nOk = MAX_HISTORY_ENTRIES + 1 /\ clock = MAX_HISTORY_ENTRIES + 2)
        => /\ Len(History) = MAX_HISTORY_ENTRIES
           /\ Timestamps = [i \in 1..MAX_HISTORY_ENTRIES |-> I(i + 1)]

\* the content is not the expected batch-list structure: not parseable, not
\* a dict, or a dict without a non-empty list under "history"
Malformed(c) ==
    \/ c = Unparseable
    \/ ~IsDict(c)
    \/ ~(IsList(Get(c, "history", None)) /\ Truthy(Get(c, "history", None)))

\* C4: a save that finds a malformed backing file (and can write) returns
\* True and leaves the history <<prior content, new batch>>.
C4_MalformedPriorIsWrapped ==
    (ret # "none" /\ lastIo = "ok" /\ prev.exists /\ Malformed(prev.content))
        => /\ ret = "True"
           /\ History = <<prev.content, lastBatch>>

\* C3: when two writers have run save_match_summaries on the same file and
\* both calls returned True, the batches of both are in the history.
C3_NoLostUpdate ==
    (\A w \in Writers : wpc[w] = "done" /\ wret[w] = "True")
        => \A w \in Writers : InHistory(wbatch[w])

----------------------------------------------------------------------------
(* Claims about the Odds Time-Window Selector *)

\* the entry is a snapshot whose minute marker starts with an integer in lo..hi
MinuteIn(ent, lo, hi) ==
    /\ IsList(ent) /\ Len(ent.v) >= 2
    /\ safe_minute(ent.v[2]) # None
    /\ safe_minute(ent.v[2]).v \in lo..hi

\* the entries of the series whose minute is in lo..hi, in input order
SubSeries(lo, hi) == SelectSeq(odds_entries, LAMBDA ent : MinuteIn(ent, lo, hi))

\* C10: when some entry has a parsed minute in [3, 6], each selector returns
\* exactly the entries with a minute in [3, 6], in input order.
C10_PreferredWindow ==
    (selected # NotRun /\ SubSeries(3, 6) # << >>)
        => /\ selected.step7 = L(SubSeries(3, 6))
           /\ selected.step2 = L(SubSeries(3, 6))

\* the series with minutes 1, 4, 8, 12 has yielded the minute-4 entry alone
C10_Witness ==
    /\ odds_entries = <<OddsEntry(1, S("1")), OddsEntry(4, S("4")),
                        OddsEntry(8, S("8")), OddsEntry(12, S("12"))>>
    /\ selected # NotRun
    /\ selected.step7 = L(<<OddsEntry(4, S("4"))>>)
    /\ selected.step2 = L(<<OddsEntry(4, S("4"))>>)

\* twice the distance of the entry's minute from 4.5
TwiceGap(ent) ==
    LET m == safe_minute(ent.v[2]).v
    IN  IF 2 * m >= 9 THEN 2 * m - 9 ELSE 9 - 2 * m

\* the entry of the series with a minute below 10 that is closest to 4.5,
\* the earliest in input order among equally close ones
Closest ==
    LET c == SubSeries(0, 9)
    IN  c[CHOOSE i \in 1..Len(c) :
            /\ \A j \in 1..Len(c) : TwiceGap(c[i]) <= TwiceGap(c[j])
            /\ \A j \in 1..(i - 1) : TwiceGap(c[j]) # TwiceGap(c[i])]

\* C11: when no entry has a parsed minute in [3, 6], each selector returns
\* the one entry with a minute below 10 closest to 4.5 (the earliest of
\* equally close ones), or nothing when no entry has a minute below 10; an
\* entry whose marker has no leading integer is never returned.
C11_Fallback ==
    selected # NotRun =>
        /\ \A sel \in {selected.step7, selected.step2} :
              /\ IsList(sel)
              /\ \A i \in 1..Len(sel.v) : MinuteIn(sel.v[i], 0, 1000)
              /\ SubSeries(3, 6) = << >> =>
                    sel = IF SubSeries(0, 9) = << >> THEN EmptyList ELSE L(<<Closest>>)

\* the series with minutes 8, 1, 12 has yielded the minute-8 entry, which
\* is as close to 4.5 as the later minute-1 entry
C11_Witness ==
    /\ odds_entries = <<OddsEntry(8, S("8")), OddsEntry(1, S("1")), OddsEntry(12, S("12"))>>
    /\ selected # NotRun
    /\ selected.step7 = L(<<OddsEntry(8, S("8"))>>)
    /\ selected.step2 = L(<<OddsEntry(8, S("8"))>>)

----------------------------------------------------------------------------
(* Claims about the Entity Resolver/Merger *)

\* C5: merge_and_summarize never raises, whatever the stub and the bundle.
C5_MergeNeverRaises ==
    summary # NotRun => ~IsRaise(summary)

\* the detail record the merge finds for the stub (line 246)
StubDetail ==
    first_result(Get(payload, "match_details", EmptyDict),
                 Or(Get(live, "id", None), Get(live, "match_id", None)))

\* the team or competition record the merge resolves through the id the
\* stub or the detail carries under idKey (lines 250-252)
Resolved(table, idKey) ==
    first_result(Get(payload, table, EmptyDict),
                 Or(Get(live, idKey, None), GetAttr(StubDetail, idKey, None)))

\* the field is in the stub and in the stub's non-empty detail record
Shared(field) ==
    /\ IsDict(StubDetail) /\ Truthy(StubDetail)
    /\ field \in DOMAIN live.v
    /\ field \in DOMAIN StubDetail.v

\* the score block the summary draws for one side (element idx of the score
\* array) from a score value
ScoreBlock(score, idx, detailed) ==
    D([current  |-> LiveScore(SideScore(score, idx)[1], detailed),
       halftime |-> SideScore(score, idx)[2],
       detailed |-> detailed])

Nameless(table, idKey, inlineKey) ==
    /\ ~Truthy(GetAttr(Resolved(table, idKey), "name", None))
    /\ ~Truthy(Get(live, inlineKey, None))

\* the side table does not name the entity, the stub does under inlineKey
InlineOnly(table, idKey, inlineKey) ==
    /\ ~Truthy(GetAttr(Resolved(table, idKey), "name", None))
    /\ Truthy(Get(live, inlineKey, None))

\* C8: in a summary, a team or competition that neither the side table nor
\* the stub names carries the placeholder name ("Unknown Home Team",
\* "Unknown Away Team", a non-empty string for the competition), never null;
\* one named inline by the stub only carries the inline name.
C8_NamePlaceholder ==
    IsDict(summary) =>
        /\ Nameless("team_info", "home_team_id", "home_name")
              => summary.v.teams.v.home.v.name = S("Unknown Home Team")
        /\ Nameless("team_info", "away_team_id", "away_name")
              => summary.v.teams.v.away.v.name = S("Unknown Away Team")
        /\ Nameless("competition_info", "competition_id", "competition_name")
              => /\ IsStr(summary.v.competition.v.name)
                 /\ Truthy(summary.v.competition.v.name)
        /\ InlineOnly("team_info", "home_team_id", "home_name")
              => summary.v.teams.v.home.v.name = Get(live, "home_name", None)
        /\ InlineOnly("team_info", "away_team_id", "away_name")
              => summary.v.teams.v.away.v.name = Get(live, "away_name", None)
        /\ InlineOnly("competition_info", "competition_id", "competition_name")
              => summary.v.competition.v.name = Get(live, "competition_name", None)

----------------------------------------------------------------------------
(* Claims about the Payload Accessor *)

\* the side table's entry for the key, None when the key is null or the
\* table has no entry for it
Entry ==
    IF acc_key = None THEN None ELSE Get(acc_mapping, PyStr(acc_key), None)

\* the value is a list with at least one element
NonEmptyList(x) == IsList(x) /\ Len(x.v) > 0

\* the value is absent (or null) or empty
AbsentOrEmpty(x) == x = None \/ ~Truthy(x)

\* C6: first_result never raises; it returns the first element of the
\* entry's non-empty "results" list, or of its non-empty "result" list when
\* "results" is absent or empty, and an empty mapping in every other case
\* (entry missing or not a dict, neither key, empty list, non-list value).
C6_FirstResultTotal ==
    acc_result # NotRun =>
        /\ ~IsRaise(acc_result)
        /\ acc_result =
             IF ~IsDict(Entry) THEN EmptyDict
             ELSE LET rs == Get(Entry, "results", None)
                      r  == Get(Entry, "result", None)
                  IN  IF NonEmptyList(rs) THEN rs.v[1]
                      ELSE IF AbsentOrEmpty(rs) /\ NonEmptyList(r) THEN r.v[1]
                      ELSE EmptyDict

\* a lookup under an integer id has fallen back to the record under
\* "result" of an envelope whose "results" is empty
C6_Witness ==
    /\ acc_key = I(7)
    /\ acc_mapping = Table("7", Envelope(EmptyList, L(<<TeamB, TeamA>>)))
    /\ acc_result = TeamB

----------------------------------------------------------------------------
(* Claims about the Competition Grouper *)

\* the match carries no country from the entity or the country table: the
\* field is missing, null, empty or the stringified null
NoCountry(match_data) ==
    \/ ~Truthy(Get(match_data, "country", None))
    \/ Get(match_data, "country", None) = S("None")

\* the first match of the dict with this competition: the one that opens
\* the competition's group
Opener(comp) ==
    matches[CHOOSE i \in 1..Len(matches) :
              /\ CompetitionOf(matches[i][2]) = comp
              /\ \A j \in 1..(i - 1) : CompetitionOf(matches[j][2]) # comp][2]

\* C9: a competition group takes the country its opening match carries, and
\* the country inferred from the team names exactly when the match carries
\* none.
C9_CountryThreeLevels ==
    (groups # NotRun /\ IsList(groups.competition_groups)) =>
        \A p \in 1..Len(groups.competition_groups.v) :
            LET group == groups.competition_groups.v[p]
                match_data == Opener(group.comp)
            IN  group.country = IF NoCountry(match_data)
                                THEN infer_country_from_teams(match_data)
                                ELSE Get(match_data, "country", None)


(***************************************************************************)
(* Odds extraction: extract_odds applied to a match whose over/under       *)
(* series is drawn from snapshots of two lines                             *)
(***************************************************************************)

\* an over/under snapshot (timestamp, minute marker, over, line, under)
BsEntry(ts, marker, ln) == L(<<I(ts), S(marker), S("1.90"), ln, S("1.95")>>)

BsPool ==
    { BsEntry(2, "2", S("2.5")), BsEntry(2, "2", I(3)),
      BsEntry(4, "4", S("2.5")), BsEntry(4, "4", I(3)),
      BsEntry(5, "5", S("2.5")), BsEntry(5, "5", I(3)),
      BsEntry(8, "8", S("2.5")), BsEntry(8, "8", I(3)) }

BsSeries == UNION { [1..n -> BsPool] : n \in 0..MaxLines }

InitMarket ==
    /\ market_match \in { D([odds |-> D([bs |-> L(q)])]) : q \in BsSeries }
    /\ market_odds = NotRun
    /\ IdleHistory /\ IdleWriters /\ IdleMerge /\ IdleGroup /\ IdleOdds /\ IdleAccessor
    /\ IdleEnv /\ IdleCls /\ IdleFeed /\ IdleInfer
    /\ IdleRerun /\ IdleFetch

ExtractOdds ==
    /\ market_odds = NotRun
    /\ market_odds' = extract_odds(market_match)
    /\ UNCHANGED <<market_match, histVars, writerVars, mergeVars, groupVars, oddsVars,
                   accVars, envVars, clsVars, feedVars, inferVars,
                   rerunVars, fetchVars>>

NextMarket == ExtractOdds

SpecMarket == InitMarket /\ [][NextMarket]_vars

\* the over/under entries the time-window rule selects from the match's series
SelectedLines == filter_by_time(market_match.v["odds"].v["bs"]).v

\* the over/under record of one snapshot
LineRecord(ent) ==
    D([line |-> ent.v[4], over |-> ent.v[3], under |-> ent.v[5],
       timestamp |-> ent.v[1], match_time |-> ent.v[2]])

\* C12: the primary over/under is the first selected snapshot, and the
\* over_under mapping has one key per distinct line among the selected
\* snapshots, each holding a selected snapshot of that line.
C12_EveryLineKept ==
    (market_odds # NotRun /\ SelectedLines # << >>) =>
        /\ IsDict(market_odds)
        /\ market_odds.v["primary_over_under"] = LineRecord(SelectedLines[1])
        /\ DOMAIN market_odds.v["over_under"].v =
              { PyStr(SelectedLines[i].v[4]) : i \in 1..Len(SelectedLines) }
        /\ \A k \in DOMAIN market_odds.v["over_under"].v :
              \E i \in 1..Len(SelectedLines) :
                 /\ PyStr(SelectedLines[i].v[4]) = k
                 /\ market_odds.v["over_under"].v[k] = LineRecord(SelectedLines[i])

\* what the code does hold: only the first selected snapshot is recorded
C12_OnlyFirstKept ==
    (market_odds # NotRun /\ SelectedLines # << >>) =>
        /\ market_odds.v["primary_over_under"] = LineRecord(SelectedLines[1])
        /\ market_odds.v["over_under"] =
              D([k \in {PyStr(SelectedLines[1].v[4])} |-> LineRecord(SelectedLines[1])])

(***************************************************************************)
(* Environment: both interpreters applied to one raw environment reading   *)
(***************************************************************************)

\* the decimal endings a wind reading is written with, and their thousandths
WindEndings == { <<"", 0>>, <<".0", 0>>, <<".5", 500>>, <<".9", 900>>, <<".999", 999>> }

\* plain wind readings in mph, as text or integer, with their value in thousandths
WindReadings ==
    { [text |-> S(ToString(n) \o e[1]), mph |-> 1000 * n + e[2]] :
         n \in 0..MaxWind, e \in WindEndings }
    \cup { [text |-> I(n), mph |-> 1000 * n] : n \in 1..MaxWind }

\* readings with a unit, malformed readings, no reading
OtherWinds ==
    { S("5 m/s"), S("1.7 M/S"), S("12 mph"), S("1.2.3"), S(""), I(0), None }

TemperatureReadings == { None, S("21"), S("-5"), S("5-"), I(18), S("21 C") }

EnvReadings ==
    { D([wind |-> w.text]) : w \in WindReadings }
    \cup { D([wind |-> w, temperature |-> t, weather |-> S("3"), pressure |-> I(1013)]) :
              w \in OtherWinds \cup {S("4"), S("72.999")}, t \in TemperatureReadings }
    \cup { D([temperature |-> S("7"), humidity |-> S("60"), weather |-> I(11)]) }

InitEnv ==
    /\ env_raw \in EnvReadings
    /\ env_parsed = NotRun
    /\ IdleHistory /\ IdleWriters /\ IdleMerge /\ IdleGroup /\ IdleOdds /\ IdleAccessor
    /\ IdleMarket /\ IdleCls /\ IdleFeed /\ IdleInfer
    /\ IdleRerun /\ IdleFetch

\* extract_environment on the match holding the reading, and
\* process_environment_like_step2 on the reading
Interpret ==
    /\ env_parsed = NotRun
    /\ env_parsed' = [step7 |-> extract_environment(D([environment |-> env_raw])),
                      step2 |-> process_environment_like_step2(env_raw)]
    /\ UNCHANGED <<env_raw, histVars, writerVars, mergeVars, groupVars, oddsVars,
                   accVars, marketVars, clsVars, feedVars, inferVars,
                   rerunVars, fetchVars>>

NextEnv == Interpret

SpecEnv == InitEnv /\ [][NextEnv]_vars

\* the ascending wind thresholds and the thirteen categories they separate
Thresholds == <<1, 4, 8, 13, 19, 25, 32, 39, 47, 55, 64, 73>>

Categories ==
    <<"Calm", "Light Air", "Light Breeze", "Gentle Breeze", "Moderate Breeze",
      "Fresh Breeze", "Strong Breeze", "Near Gale", "Gale", "Strong Gale", "Storm",
      "Violent Storm", "Hurricane">>

\* the category of a value in thousandths of a mph: one step up for every
\* threshold the value has reached
Category(mph) ==
    Categories[1 + Cardinality({ i \in 1..Len(Thresholds) : 1000 * Thresholds[i] <= mph })]

\* C13: for every plain non-negative mph reading the table of
\* extract_environment yields the category of the first threshold strictly
\* above the value (a value on a threshold is in the next-higher category,
\* 73 and more is "Hurricane"), and the if-chain of
\* process_environment_like_step2 yields that same category, whenever the
\* interpreter returns.
C13_WindCategories ==
    env_parsed # NotRun =>
        \A w \in WindReadings :
            Get(env_raw, "wind", None) = w.text =>
                /\ IsDict(env_parsed.step7) =>
                      env_parsed.step7.v["wind_description"] = S(Category(w.mph))
                /\ IsDict(env_parsed.step2) =>
                      /\ "wind_description" \in DOMAIN env_parsed.step2.v
                      /\ env_parsed.step2.v["wind_description"] = S(Category(w.mph))

C13_Witness ==
    /\ env_raw = D([wind |-> S("4")])
    /\ env_parsed # NotRun
    /\ env_parsed.step7.v["wind_description"] = S("Light Breeze")
    /\ env_parsed.step2.v["wind_description"] = S("Light Breeze")
    /\ env_parsed.step2.v["wind"] = S("4.0 mph (Light Breeze)")

(***************************************************************************)
(* Status classifier: the status code of a stub and its labels             *)
(***************************************************************************)

\* step1_json.py line 67: match.get("status_id") or (score[1] if score is a
\* list longer than one else None)
extract_status_id(match) ==
    IF ~IsDict(match) THEN Raise
    ELSE LET score == Get(match, "score", None)
         IN  Or(Get(match, "status_id", None),
                IF IsList(score) /\ Len(score.v) > 1 THEN score.v[2] ELSE None)

\* the labels the tables share for the codes 1..13
StatusNames ==
    <<"Not started", "First half", "Half-time", "Second half", "Overtime",
      "Overtime (deprecated)", "Penalty Shoot-out", "End", "Delay", "Interrupt",
      "Cut in half", "Cancel", "To be determined">>

\* table.get(status_id, default) for a table labelling 0 with `zero` and
\* 1..13 with StatusNames; a list or dict is no dictionary key
StatusLookup(zero, status_id, default) ==
    CASE status_id.k \in {"list", "dict"} -> Raise
      [] status_id.k = "int" /\ status_id.v = 0 -> S(zero)
      [] status_id.k = "int" /\ status_id.v \in 1..Len(StatusNames)
            -> S(StatusNames[status_id.v])
      [] status_id = PyFalse -> S(zero)
      [] status_id = PyTrue -> S(StatusNames[1])
      [] OTHER -> S(default)

\* step2.7.py lines 325-330
get_status_description(status_id) ==
    StatusLookup("Abnormal (suggest hiding)", status_id,
                 "Unknown (" \o PyStr(status_id) \o ")")

\* step1_json.py lines 133-142: the description logged by fetch_live_data
fetch_live_data_desc(status_id) ==
    StatusLookup("Abnormal", status_id, "Unknown Status")

\* step1_json.py lines 275-300: the description of create_unified_status_summary
unified_status_desc(status_id) ==
    StatusLookup("Abnormal (suggest hiding)", status_id, "Unknown Status")

\* step1_json.py lines 351-375: the description of create_detailed_status_mapping
detailed_status_desc(status_id) ==
    StatusLookup("Abnormal (suggest hiding)", status_id,
                 "Unknown Status (ID: " \o PyStr(status_id) \o ")")

\* step1_json.py lines 437-452: the description of
\* create_comprehensive_match_breakdown
breakdown_status_desc(status_id) ==
    StatusLookup("Abnormal", status_id,
                 "Unknown Status (ID: " \o PyStr(status_id) \o ")")

\* the status codes a stub may carry: the provider's, and some outside
StatusCodes == ((0 - 1)..MaxStatus) \cup {99}

\* a provider score array whose second element is the status code
ScoreArray(code) == L(<<S("m1"), code, L(<<I(1), I(0)>>), L(<<I(0), I(0)>>)>>)

\* the primary field of a stub: absent, null, a code, or text
PrimaryFields ==
    { NoKeys, [status_id |-> None], [status_id |-> S("2")] }
    \cup { [status_id |-> I(n)] : n \in StatusCodes }

\* the score of a stub: absent, null, short, no list, or a score array
ScoreFields ==
    { NoKeys, [score |-> None], [score |-> L(<<S("m1")>>)], [score |-> S("2-1")],
      [score |-> ScoreArray(None)] }
    \cup { [score |-> ScoreArray(I(n))] : n \in {0, 2, 6, 99} }

StubsWithStatus == { D(p @@ s @@ [id |-> S("m1")]) : p \in PrimaryFields, s \in ScoreFields }

InitCls ==
    /\ cls_match \in StubsWithStatus
    /\ cls_result = NotRun
    /\ IdleHistory /\ IdleWriters /\ IdleMerge /\ IdleGroup /\ IdleOdds /\ IdleAccessor
    /\ IdleMarket /\ IdleEnv /\ IdleFeed /\ IdleInfer
    /\ IdleRerun /\ IdleFetch

\* the code extracted from the stub and, as every loop over the stubs does
\* for a code that is not None, the code's label under each lookup
Classify ==
    /\ cls_result = NotRun
    /\ LET status_id == extract_status_id(cls_match)
       IN  cls_result' =
              [status_id |-> status_id,
               labels |-> IF status_id = None THEN None
                          ELSE D([get_status_description |-> get_status_description(status_id),
                                  fetch_live_data |-> fetch_live_data_desc(status_id),
                                  create_unified_status_summary |-> unified_status_desc(status_id),
                                  create_detailed_status_mapping |-> detailed_status_desc(status_id),
                                  create_comprehensive_match_breakdown |->
                                      breakdown_status_desc(status_id)])]
    /\ UNCHANGED <<cls_match, histVars, writerVars, mergeVars, groupVars, oddsVars,
                   accVars, marketVars, envVars, feedVars, inferVars,
                   rerunVars, fetchVars>>

NextCls == Classify

SpecCls == InitCls /\ [][NextCls]_vars

\* the fixed table of the provider's status codes 0..13
FixedTable == <<"Abnormal">> \o StatusNames

IsCode(x) == IsInt(x) /\ x.v \in 0..13

\* C14: every lookup labels each code 0..13 with the label of the fixed
\* table, so all lookups give the same label for the same code.
C14_OneTable ==
    (cls_result # NotRun /\ IsCode(cls_result.status_id)) =>
        \A who \in DOMAIN cls_result.labels.v :
            cls_result.labels.v[who] = S(FixedTable[cls_result.status_id.v + 1])

\* what the code does hold: the lookups agree with the fixed table on 1..13
C14_TableFromOne ==
    (cls_result # NotRun /\ IsCode(cls_result.status_id) /\ cls_result.status_id.v # 0) =>
        \A who \in DOMAIN cls_result.labels.v :
            cls_result.labels.v[who] = S(FixedTable[cls_result.status_id.v + 1])

\* C15: a code n outside 0..13 is labelled "Unknown Status (ID: n)" by
\* get_status_description, create_unified_status_summary and
\* create_detailed_status_mapping, and no lookup raises.
C15_UnknownCarriesCode ==
    (cls_result # NotRun /\ IsInt(cls_result.status_id) /\ ~IsCode(cls_result.status_id)) =>
        \A who \in {"get_status_description", "create_unified_status_summary",
                    "create_detailed_status_mapping"} :
            cls_result.labels.v[who] =
               S("Unknown Status (ID: " \o ToString(cls_result.status_id.v) \o ")")

\* the primary field and the score of the stub
Primary == Get(cls_match, "status_id", None)
Score == Get(cls_match, "score", None)
WellTypedScore == IsList(Score) /\ Len(Score.v) >= 2

\* C17: a primary status_id in 0..13 is returned whatever the score holds;
\* without a primary field element 1 of a score list of two or more is
\* returned; None is returned only when neither is there.
C17_PrimaryFirst ==
    cls_result # NotRun =>
        /\ IsCode(Primary) => cls_result.status_id = Primary
        /\ (Primary = None /\ WellTypedScore) => cls_result.status_id = Score.v[2]
        /\ cls_result.status_id = None =>
              /\ ~IsCode(Primary)
              /\ ~WellTypedScore \/ Score.v[2] = None

\* what the code does hold: a primary code other than 0 is returned
C17_NonZeroPrimaryFirst ==
    cls_result # NotRun =>
        /\ (IsCode(Primary) /\ Primary.v # 0) => cls_result.status_id = Primary
        /\ (~Truthy(Primary) /\ WellTypedScore) => cls_result.status_id = Score.v[2]
        /\ (~Truthy(Primary) /\ ~WellTypedScore) => cls_result.status_id = None

(***************************************************************************)
(* Status summary: the counts taken over the stubs of a live feed          *)
(***************************************************************************)

\* step2.7.py line 24
STATUS_FILTER == {2, 3, 4, 5, 6, 7}

\* step1_json.py line 239: the status ids step1_main counts as in play
in_play_ids_step1_main == <<2, 3, 4, 5, 6, 7>>

\* step1_json.py line 328, with 6 added
in_play_status_ids_WithSix == <<2, 3, 4, 5, 6, 7>>

\* step1_json.py line 328
in_play_status_ids == <<2, 3, 4, 5, 7>>

\* status_id in ids / status_counts.get(sid), for a list of integers
InIds(status_id, ids) ==
    status_id.k = "int" /\ \E i \in 1..Len(ids) : ids[i] = status_id.v

\* the elements of q without repetitions, in order of first appearance
RECURSIVE FirstSeen(_)
FirstSeen(q) ==
    IF Len(q) = 0 THEN << >>
    ELSE LET front == FirstSeen(SubSeq(q, 1, Len(q) - 1))
             x     == q[Len(q)]
         IN  IF \E i \in 1..Len(front) : front[i] = x THEN front ELSE Append(front, x)

\* sorted(keys) for status ids: ascending integers or texts, Raise when mixed
Sortable(ids) == \A a, b \in ids : a.k = b.k /\ a.k \in {"int", "str"}

SortedIds(ids) ==
    IF ~Sortable(ids) THEN Raise
    ELSE LET before(a) == { b \in ids : IF a.k = "int" THEN b.v < a.v
                                                       ELSE StrLess(b.v, a.v) }
         IN  [i \in 1..Cardinality(ids) |->
                 CHOOSE a \in ids : Cardinality(before(a)) = i - 1]

\* step1_json.py lines 263-269
EmptyStatusSummary ==
    D([total_matches_fetched |-> I(0), status_breakdown |-> EmptyDict,
       formatted_summary |-> EmptyList, status_counts |-> EmptyDict,
       in_play_matches |-> I(0)])

\* step1_json.py line 262: "results" not in live_matches_data, for an
\* operand that is not falsy; "raise" when the operand admits no `in`
LacksResults(live_matches_data) ==
    CASE IsDict(live_matches_data) ->
            IF "results" \in DOMAIN live_matches_data.v THEN "no" ELSE "yes"
      [] IsList(live_matches_data) ->
            IF \E i \in 1..Len(live_matches_data.v) : live_matches_data.v[i] = S("results")
            THEN "no" ELSE "yes"
      [] IsStr(live_matches_data) ->
            IF Contains(live_matches_data.v, "results") THEN "no" ELSE "yes"
      [] OTHER -> "raise"

\* step1_json.py lines 260-341
create_unified_status_summary(live_matches_data) ==
    IF ~Truthy(live_matches_data) THEN EmptyStatusSummary
    ELSE IF LacksResults(live_matches_data) = "raise" THEN Raise
    ELSE IF LacksResults(live_matches_data) = "yes" THEN EmptyStatusSummary
    ELSE IF ~IsDict(live_matches_data) THEN Raise
    ELSE
    LET matches_ == live_matches_data.v["results"]
    IN  IF ~IsList(matches_) \/ \E i \in 1..Len(matches_.v) : ~IsDict(matches_.v[i])
        THEN Raise
        ELSE
        LET n        == Len(matches_.v)
            status   == [i \in 1..n |-> extract_status_id(matches_.v[i])]
            having   == { i \in 1..n : status[i] # None }
            keys     == FirstSeen(SelectSeq(status, LAMBDA x : x # None))
            count(k) == Cardinality({ i \in having : status[i] = k })
            desc(k)  == unified_status_desc(k)
            order    == SortedIds({ keys[i] : i \in 1..Len(keys) })
            line(k)  == desc(k).v \o " (ID: " \o PyStr(k) \o "): " \o ToString(count(k))
            in_play  == Cardinality({ i \in having : InIds(status[i], in_play_status_ids) })
            last(t)  == keys[CHOOSE i \in 1..Len(keys) :
                               /\ desc(keys[i]) = S(t)
                               /\ \A j \in (i + 1)..Len(keys) : desc(keys[j]) # S(t)]
        IN  IF \/ \E i \in having : IsRaise(unified_status_desc(status[i]))
               \/ ~Sortable({ keys[i] : i \in 1..Len(keys) })
            THEN Raise
            ELSE D([total_matches_fetched |-> I(n),
                    matches_with_status |-> I(Cardinality(having)),
                    matches_without_status |-> I(n - Cardinality(having)),
                    in_play_matches |-> I(in_play),
                    status_breakdown |->
                       IF Len(keys) = 0 THEN EmptyDict ELSE
                       D([name \in { "status_" \o PyStr(keys[i]) : i \in 1..Len(keys) } |->
                            LET k == keys[CHOOSE i \in 1..Len(keys) :
                                             "status_" \o PyStr(keys[i]) = name]
                            IN  D([id |-> k, description |-> desc(k),
                                   count |-> I(count(k)), formatted |-> S(line(k))])]),
                    formatted_summary |->
                       L([i \in 1..Len(order) |-> S(line(order[i]))]
                            \o <<S("IN-PLAY MATCHES: " \o ToString(in_play))>>),
                    status_counts |->
                       IF Len(keys) = 0 THEN EmptyDict ELSE
                       D([t \in { desc(keys[i]).v : i \in 1..Len(keys) } |->
                            I(count(last(t)))])])

\* step1_json.py lines 235-240: the in-play count of step1_main's footer
step1_main_in_play_count(live_data) ==
    LET matches_ == GetAttr(live_data, "results", EmptyList)
    IN  IF IsRaise(matches_) \/ ~IsIterable(matches_) THEN Raise
        ELSE IF \E i \in 1..Len(Iter(matches_)) : ~IsDict(Iter(matches_)[i]) THEN Raise
        ELSE I(Cardinality({ i \in 1..Len(Iter(matches_)) :
                   InIds(extract_status_id(Iter(matches_)[i]), in_play_ids_step1_main) }))

\* the stubs of a feed: a code in the primary field, in the score array
\* only, behind a primary 0, or nowhere
FeedStubs ==
    { D([status_id |-> I(n)]) : n \in {1, 2, 6, 7, 8, 14, 99} }
    \cup { D([status_id |-> I(0), score |-> ScoreArray(I(6))]),
           D([score |-> ScoreArray(I(3))]),
           D([id |-> S("m1")]) }

Feeds ==
    { None, D([code |-> I(0)]) }
    \cup { D([code |-> I(0), results |-> L(q)]) :
              q \in UNION { [1..n -> FeedStubs] : n \in 0..MaxStubs } }

InitFeed ==
    /\ feed \in Feeds
    /\ feed_summary = NotRun
    /\ IdleHistory /\ IdleWriters /\ IdleMerge /\ IdleGroup /\ IdleOdds /\ IdleAccessor
    /\ IdleMarket /\ IdleEnv /\ IdleCls /\ IdleInfer
    /\ IdleRerun /\ IdleFetch

\* the summary of the feed and, for a feed that was fetched, the footer count
Count ==
    /\ feed_summary = NotRun
    /\ feed_summary' =
          [unified |-> create_unified_status_summary(feed),
           in_play_count |-> IF feed = None THEN None ELSE step1_main_in_play_count(feed)]
    /\ UNCHANGED <<feed, histVars, writerVars, mergeVars, groupVars, oddsVars,
                   accVars, marketVars, envVars, clsVars, inferVars,
                   rerunVars, fetchVars>>

NextFeed == Count

SpecFeed == InitFeed /\ [][NextFeed]_vars

\* the stubs of the feed, and how many of them have their extracted status in a set
FeedResults == IF IsDict(feed) /\ "results" \in DOMAIN feed.v THEN feed.v["results"].v ELSE << >>

StubsIn(codes) ==
    Cardinality({ i \in 1..Len(FeedResults) :
                     LET status_id == extract_status_id(FeedResults[i])
                     IN  IsInt(status_id) /\ status_id.v \in codes })

CompetitionNames ==
    { S("International Friendly"), S("INTERNATIONAL FRIENDLY GAMES"),
      S("Friendly International U20"), S("Club Friendly"), S("Copa Libertadores") }

HomeNames ==
    { S("Brazil"), S("Argentina U20"), S("Boca Brazil"), S("FC Seoul"), S("USA"),
      S("Wanderers"), S("New"), S("La") }

AwayNames ==
    { S("Argentina"), S("Brazil B"), S("River Plate"), S("Sparta Praha"), S("Rovers"),
      S("York City"), S("Galaxy") }

InferenceInputs ==
    { D([competition |-> c, home_team |-> h, away_team |-> a]) :
         c \in CompetitionNames, h \in HomeNames, a \in AwayNames }
    \cup { D([competition |-> c, home_team |-> h]) : c \in CompetitionNames, h \in HomeNames }
    \cup { D([competition |-> c, away_team |-> a]) : c \in CompetitionNames, a \in AwayNames }
    \cup { D([home_team |-> S("Brazil"), away_team |-> S("Argentina")]), D([home_team |-> None]) }

InitInfer ==
    /\ inf_match \in InferenceInputs
    /\ inferred = NotRun
    /\ IdleHistory /\ IdleWriters /\ IdleMerge /\ IdleGroup /\ IdleOdds /\ IdleAccessor
    /\ IdleMarket /\ IdleEnv /\ IdleCls /\ IdleFeed
    /\ IdleRerun /\ IdleFetch

Infer ==
    /\ inferred = NotRun
    /\ inferred' = infer_country_from_teams(inf_match)
    /\ UNCHANGED <<inf_match, histVars, writerVars, mergeVars, groupVars, oddsVars,
                   accVars, marketVars, envVars, clsVars, feedVars,
                   rerunVars, fetchVars>>

NextInfer == Infer

SpecInfer == InitInfer /\ [][NextInfer]_vars

\* the countries of the indicator table, title-cased, in table order
CountryTitles ==
    <<"Australia", "Argentina", "Brazil", "England", "Spain", "Germany", "France",
      "Italy", "Netherlands", "Portugal", "Mexico", "Usa", "South Korea", "Japan",
      "China", "Russia", "Norway", "Czech Republic", "Austria">>

\* the position in the table of the first country with an indicator in the
\* lower-cased text, 0 when there is none
FirstCountry(text) ==
    LET hits == { i \in 1..Len(country_indicators) :
                     \E j \in 1..Len(country_indicators[i][2]) :
                        Contains(Lower(text), country_indicators[i][2][j]) }
    IN  IF hits = {} THEN 0 ELSE CHOOSE i \in hits : \A j \in hits : i <= j

NameOf(field) == Get(inf_match, field, S("")).v

IsFriendly ==
    /\ Contains(Lower(NameOf("competition")), "international")
    /\ Contains(Lower(NameOf("competition")), "friendly")

\* C18: for a competition naming both "international" and "friendly": sides
\* of different countries give "International"; one matching side gives its
\* country, title-cased; sides of the same country give that country;
\* no matching side gives the first country, in table order, found in the
\* joined text of both sides, title-cased, else "Unknown".
C18_FriendlyRules ==
    (inferred \notin {NotRun, Raise} /\ IsFriendly) =>
        LET h == FirstCountry(NameOf("home_team"))
            a == FirstCountry(NameOf("away_team"))
            both == FirstCountry(NameOf("home_team") \o " " \o NameOf("away_team"))
        IN  inferred =
               IF h # 0 /\ a # 0 /\ h # a THEN S("International")
               ELSE IF h # 0 THEN S(CountryTitles[h])
               ELSE IF a # 0 THEN S(CountryTitles[a])
               ELSE IF both # 0 THEN S(CountryTitles[both])
               ELSE S("Unknown")

C18_Witness ==
    /\ inf_match = D([competition |-> S("International Friendly"),
                      home_team |-> S("Brazil"), away_team |-> S("Argentina")])
    /\ inferred = S("International")

\* the priority of a match within its group: statuses 2..7 in ascending
\* order, every other or missing status after them
Priority(match_data) ==
    LET sid == Get(match_data, "status_id", None)
    IN  IF IsInt(sid) /\ sid.v \in 2..7 THEN sid.v - 1 ELSE 99

MatchId(match_data) == Get(match_data, "match_id", S(""))

\* match x may stand before match y in a group
InOrder(x, y) ==
    \/ Priority(x) < Priority(y)
    \/ Priority(x) = Priority(y) /\ ~StrLess(MatchId(y).v, MatchId(x).v)

\* the matches in reverse input order, under the same keys
Reversed == [i \in 1..Len(matches) |-> matches[Len(matches) + 1 - i]]

\* the match records of each group of a result, by competition
Members(result) ==
    { <<result.v[p][1], [i \in 1..Len(result.v[p][2].v) |-> result.v[p][2].v[i][2]]>> :
         p \in 1..Len(result.v) }

DistinctIds ==
    \A i, j \in 1..Len(matches) :
        i # j => MatchId(matches[i][2]) # MatchId(matches[j][2])

\* C19: within every group of the result the matches stand in the order of
\* their status priority (2..7 first, in that order, any other or missing
\* status last) and, at equal priority, of their match id; matches with
\* distinct ids are grouped and ordered the same when given in reverse.
C19_OrderWithinGroup ==
    (groups # NotRun /\ IsList(groups.result)) =>
        /\ \A p \in 1..Len(groups.result.v) :
              LET members == groups.result.v[p][2].v
              IN  \A i, j \in 1..Len(members) :
                     i < j => InOrder(members[i][2], members[j][2])
        /\ DistinctIds =>
              Members(sort_matches_by_competition_and_time(Reversed)) = Members(groups.result)

C19_Witness ==
    /\ Len(matches) = 3
    /\ matches[1][2] = MatchData(S("Serie A"), S("Italy"), I(8), S("Lazio"), S("Torino"), S("A"))
    /\ matches[2][2] = MatchData(S("Serie A"), None, I(3), S("Juventus"), S("AS Roma"), S("b"))
    /\ matches[3][2] = MatchData(S("Serie A"), S("Italy"), I(3), S("Milan"), S("Napoli"), S("B"))
    /\ groups # NotRun
    /\ groups.result = L(<< <<S("Serie A"), L(<<matches[3], matches[2], matches[1]>>)>> >>)

\* the country a group is ordered by
OrderedAs(comp) ==
    LET cg == groups.competition_groups.v
        country == cg[CHOOSE p \in 1..Len(cg) : cg[p].comp = comp].country
    IN  IF country \in {None, S("")} THEN "Unknown" ELSE country.v

\* C20: the groups of the result stand in ascending order of (country,
\* competition), a group without country ordered as "Unknown"; the groups
\* are the competition names of the matches, and every match of the input
\* is in the group of its competition once and in no other group.
C20_GroupOrderAndPartition ==
    (groups # NotRun /\ IsList(groups.result)) =>
        LET result == groups.result.v
        IN  /\ \A p, q \in 1..Len(result) :
                  p < q =>
                     \/ StrLess(OrderedAs(result[p][1]), OrderedAs(result[q][1]))
                     \/ /\ OrderedAs(result[p][1]) = OrderedAs(result[q][1])
                        /\ StrLess(result[p][1].v, result[q][1].v)
            /\ \A i \in 1..Len(matches) :
                  \A p \in 1..Len(result) :
                     Cardinality({ k \in 1..Len(result[p][2].v) :
                                      result[p][2].v[k] = matches[i] })
                        = IF result[p][1] = CompetitionOf(matches[i][2]) THEN 1 ELSE 0
            /\ \A p \in 1..Len(result) :
                  \A k \in 1..Len(result[p][2].v) :
                     \E i \in 1..Len(matches) : result[p][2].v[k] = matches[i]

C20_Witness ==
    /\ Len(matches) = 3
    /\ matches[1][2] = MatchData(S("Serie A"), S("Italy"), I(2), S("Juventus"), S("Inter"), S("a"))
    /\ matches[2][2] = MatchData(S("Cup"), Absent, I(9), S("FC Nowhere"),
                                 S("Elsewhere United"), S("d"))
    /\ matches[3][2] = MatchData(S("K League"), S("South Korea"), I(4), S("FC Seoul"),
                                 S("Busan"), S("a"))
    /\ groups # NotRun
    /\ groups.result = L(<< <<S("Serie A"), L(<<matches[1]>>)>>,
                            <<S("K League"), L(<<matches[3]>>)>>,
                            <<S("Cup"), L(<<matches[2]>>)>> >>)
----------------------------------------------------------------------------
(* merge_and_summarize applied more than once to one stub and one bundle   *)

\* applications of merge_and_summarize to the same stub and bundle
MaxRuns == 2
\* seconds that pass on the wall clock between the first and the last application
MaxElapsed == 1

\* lines 29-31: strftime("%m/%d/%Y %I:%M:%S %p %Z") of the instant t seconds
\* (t < 60) after 11/01/2026 09:30:00 AM EST
get_eastern_time(t) ==
    S("11/01/2026 09:30:" \o (IF t < 10 THEN "0" ELSE "") \o ToString(t) \o " AM EST")

\* a summary whose start_time falls back to the time of the call
Stamped_StartTimeNow(fields, now) ==
    IF IsRaise(fields) THEN Raise
    ELSE D([key \in DOMAIN fields.v \cup {"fetched_at"} |->
              CASE key = "fetched_at" -> get_eastern_time(now)
                [] key = "start_time" -> Or(fields.v.start_time, get_eastern_time(now))
                [] OTHER -> fields.v[key]])

\* lines 56-94: the summary returned by a call made at time now; line 93 is
\* the only place that reads the clock
Stamped(fields, now) ==
    IF IsRaise(fields) THEN Raise
    ELSE D([key \in DOMAIN fields.v \cup {"fetched_at"} |->
              IF key = "fetched_at" THEN get_eastern_time(now) ELSE fields.v[key]])

InitRerun ==
    /\ live \in Stubs
    /\ payload \in Bundles
    /\ summary = NotRun
    /\ rerun_given = [live |-> live, payload |-> payload]
    /\ rerun_results = << >>
    /\ rerun_clock = 0
    /\ IdleHistory /\ IdleWriters /\ IdleGroup /\ IdleOdds /\ IdleAccessor
    /\ IdleMarket /\ IdleEnv /\ IdleCls /\ IdleFeed /\ IdleInfer /\ IdleFetch

\* one call of merge_and_summarize on the objects live and payload.  Lines
\* 235-268, 37-94, 97-180 and 183-189 write to dicts and lists they create
\* themselves (merged, countries, odds_struct, data, parsed, the summary), never
\* to live, payload or an object reached from them.
Apply ==
    /\ Len(rerun_results) < MaxRuns
    /\ rerun_results' =
          Append(rerun_results, Stamped(merge_and_summarize(live, payload), rerun_clock))
    /\ UNCHANGED <<live, payload, summary, rerun_given, rerun_clock, histVars, writerVars,
                   groupVars, oddsVars, accVars, marketVars, envVars, clsVars, feedVars,
                   inferVars, fetchVars>>

\* a second passes between two applications
Tick ==
    /\ Len(rerun_results) \in 1..(MaxRuns - 1)
    /\ rerun_clock < MaxElapsed
    /\ rerun_clock' = rerun_clock + 1
    /\ UNCHANGED <<mergeVars, rerun_given, rerun_results, histVars, writerVars,
                   groupVars, oddsVars, accVars, marketVars, envVars, clsVars, feedVars,
                   inferVars, fetchVars>>

NextRerun == Apply \/ Tick

SpecRerun == InitRerun /\ [][NextRerun]_vars

\* a summary without its fetch timestamp
Unstamped(r) ==
    IF IsRaise(r) THEN r ELSE D([key \in DOMAIN r.v \ {"fetched_at"} |-> r.v[key]])

----------------------------------------------------------------------------
(* History Store: what a batch holds of the summaries given *)

\* the positions of the summaries that carry a match id
WithId(summaries) ==
    { i \in 1..Len(summaries) : Get(summaries[i], "match_id", None) # None }

\* C22: the batch built from a list of summaries has one entry for each
\* summary that has a match id, under the id as a string, no entry for a
\* summary without one, and total_matches is the number of summaries that
\* have a match id.
C22_OnlyIdlessOmitted ==
    lastBatch # None =>
       LET grouped == lastBatch.v.matches.v
           key(i)  == PyStr(Get(lastSummaries[i], "match_id", None))
       IN  /\ \A i \in WithId(lastSummaries) :
                key(i) \in DOMAIN grouped /\ grouped[key(i)] = lastSummaries[i]
           /\ \A k \in DOMAIN grouped : \E i \in WithId(lastSummaries) : k = key(i)
           /\ lastBatch.v.total_matches = I(Cardinality(WithId(lastSummaries)))

\* no summary without a match id has an entry, and a list of summaries with
\* pairwise different ids is stored whole
C22_DistinctIdsKept ==
    lastBatch # None =>
       LET grouped == lastBatch.v.matches.v
           key(i)  == PyStr(Get(lastSummaries[i], "match_id", None))
           with    == WithId(lastSummaries)
       IN  /\ \A k \in DOMAIN grouped : \E i \in with : k = key(i) /\ grouped[k].v.match_id # None
           /\ (\A i, j \in with : i # j => key(i) # key(j))
                 => /\ \A i \in with : grouped[key(i)] = lastSummaries[i]
                    /\ lastBatch.v.total_matches = I(Cardinality(with))

----------------------------------------------------------------------------
(* Entity Resolver/Merger: which id resolves the names *)

\* the stub and its non-empty detail record carry different ids under idKey
Differ(idKey) ==
    /\ Shared(idKey)
    /\ Truthy(live.v[idKey]) /\ Truthy(StubDetail.v[idKey])
    /\ live.v[idKey] # StubDetail.v[idKey]

\* the record the table holds for the id the detail carries under idKey
DetailResolved(table, idKey) ==
    first_result(Get(payload, table, EmptyDict), GetAttr(StubDetail, idKey, None))

\* name, logo and country as lines 257-265 draw them from a table record
NameFrom(rec, inlineKey) == Or(GetAttr(rec, "name", None), Get(live, inlineKey, None))
LogoFrom(rec) == GetAttr(rec, "logo", None)
CountryFrom(rec) == CountryOf(rec, Countries(Get(payload, "countries", EmptyDict)))

\* C23: where the stub and a non-empty detail carry different home_team_id,
\* away_team_id or competition_id, the summary's name, logo and country of
\* that team or competition are those of the table record of the detail's id;
\* the competition name so belongs to the id reported in competition.id.
C23_ResolvedFromDetailId ==
    IsDict(summary) =>
        /\ \A side \in {"home", "away"} :
              LET rec == DetailResolved("team_info", side \o "_team_id")
              IN  Differ(side \o "_team_id") /\ IsDict(rec)
                     => /\ summary.v.teams.v[side].v.name = NameFrom(rec, side \o "_name")
                        /\ summary.v.teams.v[side].v.logo_url = LogoFrom(rec)
                        /\ summary.v.teams.v[side].v.country = CountryFrom(rec)
        /\ LET rec == DetailResolved("competition_info", "competition_id")
           IN  Differ("competition_id") /\ IsDict(rec)
                  => /\ summary.v.competition.v.id = StubDetail.v.competition_id
                     /\ summary.v.competition.v.name = NameFrom(rec, "competition_name")
                     /\ summary.v.competition.v.logo_url = LogoFrom(rec)
                     /\ summary.v.competition.v.country = CountryFrom(rec)

\* what the code does instead: name, logo and country are those of the table
\* record of the STUB's id, while competition.id is the detail's id
C23_ResolvedFromStubId ==
    IsDict(summary) =>
        /\ \A side \in {"home", "away"} :
              LET rec == Resolved("team_info", side \o "_team_id")
              IN  Differ(side \o "_team_id")
                     => /\ summary.v.teams.v[side].v.name = NameFrom(rec, side \o "_name")
                        /\ summary.v.teams.v[side].v.logo_url = LogoFrom(rec)
                        /\ summary.v.teams.v[side].v.country = CountryFrom(rec)
        /\ LET rec == Resolved("competition_info", "competition_id")
           IN  Differ("competition_id")
                  => /\ summary.v.competition.v.id = StubDetail.v.competition_id
                     /\ summary.v.competition.v.name = NameFrom(rec, "competition_name")
                     /\ summary.v.competition.v.logo_url = LogoFrom(rec)
                     /\ summary.v.competition.v.country = CountryFrom(rec)

----------------------------------------------------------------------------
(* History Store: the persisted document *)

\* C24: after a save that returned True the backing file holds a document
\* whose total_entries is the length of history, whose last_updated is the
\* timestamp of the last history element and whose latest_match_count is
\* that element's total_matches, the number of keys of its matches.
C24_DocumentConsistent ==
    ret = "True" =>
       LET doc  == file.content.v
           last == History[Len(History)]
       IN  /\ doc.total_entries = I(Len(History))
           /\ doc.last_updated = last.v.timestamp
           /\ doc.latest_match_count = last.v.total_matches
           /\ last.v.total_matches = I(Cardinality(DOMAIN last.v.matches.v))

\* a save succeeded on a file whose counters were those of a 150-element
\* history; the document now counts 101 entries and a batch of two matches
C24_Witness ==
    /\ ret = "True"
    /\ file0 = FileOf(OldDocument(150))
    /\ prev = file0
    /\ file.content.v.total_entries = I(101)
    /\ file.content.v.latest_match_count = I(2)

----------------------------------------------------------------------------
(* fetch_json: one call, its requests and its waits *)

\* line 71: range(3)
fetch_attempts == 3

\* ways lines 73-75 raise: requests.get fails or times out, raise_for_status
\* rejects the HTTP status, the body is not JSON
Failures == {"connection_error", "timeout", "http_error", "invalid_json"}

\* what response.json() returns for a body that is JSON: any JSON value
JsonBodies ==
    { D([code |-> I(0), results |-> L(<<D([id |-> S("m1")])>>)]),
      D([err |-> S("too many requests")]),
      EmptyDict,
      EmptyList,
      L(<<D([id |-> S("m1")])>>),
      None }

Requested(outcome) == [ev |-> "request", outcome |-> outcome, seconds |-> 0]
Slept(seconds)     == [ev |-> "sleep", outcome |-> None, seconds |-> seconds]

RECURSIVE Pow2(_)
Pow2(n) == IF n = 0 THEN 1 ELSE 2 * Pow2(n - 1)

\* line 80: 2 ** attempt
Backoff(attempt) == Pow2(attempt)

InitFetch ==
    /\ fj_pc = "request"
    /\ fj_attempt = 0
    /\ fj_log = << >>
    /\ fj_ret = NotRun
    /\ IdleHistory /\ IdleWriters /\ IdleMerge /\ IdleGroup /\ IdleOdds /\ IdleAccessor
    /\ IdleMarket /\ IdleEnv /\ IdleCls /\ IdleFeed /\ IdleInfer /\ IdleRerun

\* lines 73-75: the request is answered with a JSON body, which is returned
RequestSucceeds ==
    /\ fj_pc = "request"
    /\ \E body \in JsonBodies :
          /\ fj_log' = Append(fj_log, Requested(body))
          /\ fj_ret' = body
    /\ fj_pc' = "done"
    /\ UNCHANGED <<fj_attempt, histVars, writerVars, mergeVars, groupVars, oddsVars,
                   accVars, marketVars, envVars, clsVars, feedVars, inferVars, rerunVars>>

\* lines 73-79: the request raises; the last attempt returns {}
RequestFails ==
    /\ fj_pc = "request"
    /\ \E failure \in Failures :
          fj_log' = Append(fj_log, Requested([k |-> "exception", v |-> failure]))
    /\ IF fj_attempt = fetch_attempts - 1
       THEN fj_ret' = EmptyDict /\ fj_pc' = "done"
       ELSE fj_ret' = fj_ret /\ fj_pc' = "sleep"
    /\ UNCHANGED <<fj_attempt, histVars, writerVars, mergeVars, groupVars, oddsVars,
                   accVars, marketVars, envVars, clsVars, feedVars, inferVars, rerunVars>>

\* line 80 and the next turn of the loop
Sleep ==
    /\ fj_pc = "sleep"
    /\ fj_log' = Append(fj_log, Slept(Backoff(fj_attempt)))
    /\ fj_attempt' = fj_attempt + 1
    /\ fj_pc' = "request"
    /\ UNCHANGED <<fj_ret, histVars, writerVars, mergeVars, groupVars, oddsVars,
                   accVars, marketVars, envVars, clsVars, feedVars, inferVars, rerunVars>>

NextFetch == RequestSucceeds \/ RequestFails \/ Sleep

SpecFetch == InitFetch /\ [][NextFetch]_vars

\* requests.get returns or raises within its timeout and time.sleep returns
FairFetch == SpecFetch /\ WF_vars(NextFetch)

\* the outcomes of the requests made so far, in order
Outcomes == [i \in 1..Len(SelectSeq(fj_log, LAMBDA e : e.ev = "request")) |->
               SelectSeq(fj_log, LAMBDA e : e.ev = "request")[i].outcome]

Failed(outcome) == outcome.k = "exception"

\* the attempts and waits of a call: at most 3 requests, none after one
\* that succeeded, a wait of 1s after the first failure and of 2s after the
\* second and nowhere else, the first success returned, {} after 3 failures
C25_AttemptsAndWaits ==
    /\ Len(Outcomes) <= 3
    /\ \A i \in 1..(Len(Outcomes) - 1) : Failed(Outcomes[i])
    /\ \A i \in 1..Len(fj_log) :
          /\ fj_log[i].ev = "sleep"
                => /\ i \in {2, 4} /\ fj_log[i].seconds = i \div 2
                   /\ fj_log[i - 1].ev = "request" /\ Failed(fj_log[i - 1].outcome)
          /\ fj_log[i].ev = "request" /\ i > 1 => fj_log[i - 1].ev = "sleep"
    /\ fj_pc = "done" =>
          /\ fj_log[Len(fj_log)].ev = "request"
          /\ LET last == Outcomes[Len(Outcomes)]
             IN  IF Failed(last)
                 THEN Len(Outcomes) = 3 /\ fj_ret = EmptyDict
                 ELSE fj_ret = last
    /\ fj_pc # "done" => fj_ret = NotRun /\ (fj_pc = "request" => Len(fj_log) < 5)

\* C25: a call makes at most 3 attempts, stops at the first that succeeds
\* and returns its JSON, waits 1s and then 2s only between a failed attempt
\* and the next, returns {} after the third failure, and the value a call
\* ends with is a mapping.
C25_EndsWithMapping ==
    /\ C25_AttemptsAndWaits
    /\ fj_pc = "done" => IsDict(fj_ret)

\* every call ends
C25_Terminates == <>(fj_pc = "done")

----------------------------------------------------------------------------
(* History Store: first in, first out *)

\* h is the last Len(h) elements of q, in the same order
IsSuffix(h, q) ==
    Len(h) <= Len(q) /\ h = SubSeq(q, Len(q) - Len(h) + 1, Len(q))

\* C26: once a save has succeeded, the history of the persisted document is
\* a contiguous suffix of the sequence of everything ever placed in it, in
\* the order it was placed: only elements at the front are gone, and the
\* batch appended last is the last element.
C26_FifoSuffix ==
    nOk > 0 /\ file.content # Unparseable =>
       /\ IsSuffix(History, placed)
       /\ History[Len(History)] = placed[Len(placed)]
       /\ ret = "True" => History[Len(History)] = lastBatch

\* two saves succeeded on a file that held 150 batches: 152 elements were
\* placed, the 101 last of them are persisted
C26_Witness ==
    /\ nOk = 2
    /\ file0 = FileOf(OldDocument(150))
    /\ Len(placed) = 152
    /\ Len(History) = 101
    /\ History[1] = placed[52]

----------------------------------------------------------------------------
(* History Store: a save that fails *)

\* C27: a save that returned False left the backing file exactly as it was
\* before the call.
C27_FailureLeavesFile ==
    ret = "False" => file = prev

\* a save that returned False changed the file only when the dump failed
\* after the file had been opened for writing; the file then holds no
\* document any more
C27_OnlyDumpFailureTruncates ==
    ret = "False" /\ file # prev => lastIo = "dump_fails" /\ file = FileOf(Unparseable)

----------------------------------------------------------------------------
(* Competition Grouper: the order of the input *)

\* the same matches under the same keys, in every iteration order
Orderings ==
    LET n == Len(matches)
    IN  { [i \in 1..n |-> matches[f[i]]] :
            f \in { g \in [1..n -> 1..n] : \A i, j \in 1..n : i # j => g[i] # g[j] } }

\* C28: for every iteration order of the same matches the function gives the
\* same sequence of groups and the same sequence of matches in each group.
C28_OrderIndependent ==
    groups # NotRun =>
        \A q \in Orderings : sort_matches_by_competition_and_time(q) = groups.result

\* no two matches of one competition differ in country or agree in both
\* status priority and match id
Unambiguous ==
    \A i, j \in 1..Len(matches) :
        (i # j /\ CompetitionOf(matches[i][2]) = CompetitionOf(matches[j][2]))
           => /\ CountryOfMatch(matches[i][2]) = CountryOfMatch(matches[j][2])
              /\ \/ Priority(matches[i][2]) # Priority(matches[j][2])
                 \/ MatchId(matches[i][2]) # MatchId(matches[j][2])

\* where the order of the input shows in the output: only through the
\* country of a competition whose matches differ in country, and through
\* matches of one competition that tie on status priority and match id
C28_OrderIndependentIfUnambiguous ==
    (groups # NotRun /\ Unambiguous) =>
        \A q \in Orderings : sort_matches_by_competition_and_time(q) = groups.result

----------------------------------------------------------------------------
(* Status summary: the counts of a feed *)

\* the sum of the counts of a description -> count dict
RECURSIVE SumOver(_, _)
SumOver(counts, names) ==
    IF names = {} THEN 0
    ELSE LET name == CHOOSE x \in names : TRUE
         IN  counts[name].v + SumOver(counts, names \ {name})

\* the number of stubs of the feed whose extracted status is status_id
StubsWith(status_id) ==
    Cardinality({ i \in 1..Len(FeedResults) : extract_status_id(FeedResults[i]) = status_id })

\* the totals and the per-id breakdown of a summary are those of the feed
BreakdownComplete(u) ==
    /\ u.total_matches_fetched = I(Len(FeedResults))
    /\ u.matches_with_status.v + u.matches_without_status.v = u.total_matches_fetched.v
    /\ u.matches_with_status = I(Len(FeedResults) - StubsWith(None))
    /\ \A name \in DOMAIN u.status_breakdown.v :
          LET entry == u.status_breakdown.v[name].v
          IN  entry.count.v > 0 /\ entry.count = I(StubsWith(entry.id))
    /\ \A i \in 1..Len(FeedResults) :
          LET status_id == extract_status_id(FeedResults[i])
          IN  status_id # None =>
                 \E name \in DOMAIN u.status_breakdown.v :
                    u.status_breakdown.v[name].v.id = status_id

\* C29: in the summary of a feed with results, matches_with_status plus
\* matches_without_status is total_matches_fetched, the count of each status
\* id in status_breakdown is the number of stubs with that extracted status,
\* and the counts of status_counts sum to matches_with_status.
C29_CountsAddUp ==
    (feed_summary # NotRun /\ Len(FeedResults) > 0) =>
        LET u == feed_summary.unified.v
        IN  /\ BreakdownComplete(u)
            /\ SumOver(u.status_counts.v, DOMAIN u.status_counts.v) = u.matches_with_status.v

\* the codes outside 0..13 that stubs of the feed carry
UnknownCodes ==
    { extract_status_id(FeedResults[i]).v :
        i \in { j \in 1..Len(FeedResults) : IsInt(extract_status_id(FeedResults[j])) } }
    \ (0..13)

\* the totals and the breakdown are right for every feed; status_counts
\* sums to matches_with_status when the feed has at most one code outside
\* 0..13, and otherwise holds the count of one such code only
C29_CountsAddUpForOneUnknown ==
    (feed_summary # NotRun /\ Len(FeedResults) > 0) =>
        LET u == feed_summary.unified.v
            total == SumOver(u.status_counts.v, DOMAIN u.status_counts.v)
        IN  /\ BreakdownComplete(u)
            /\ Cardinality(UnknownCodes) <= 1 => total = u.matches_with_status.v
            /\ Cardinality(UnknownCodes) > 1 => total < u.matches_with_status.v

=============================================================================
